---- MODULE Spec2Model ----
(***************************************************************************)
(* Multi-source earthquake fusion and scoring pipeline of backend/main.py. *)
(*                                                                         *)
(* Units.  Magnitudes are integers in tenths (34 is M3.4).  Occurrence     *)
(* instants are integers in seconds.  Positions are kilometres along one   *)
(* meridian, so the geodesic distance of two events is the absolute        *)
(* difference of their positions.  Scores are integers in thousandths.     *)
(*                                                                         *)
(* An event's time is a string in the source.  Two formats reach the       *)
(* pipeline: GeoJSON parsers write datetime.fromtimestamp(..).isoformat()  *)
(* (no UTC offset, "naive"), RSS parsers write                             *)
(* parsedate_to_datetime(..).isoformat() (with "+00:00", "aware").         *)
(* datetime.fromisoformat parses both, and subtracting a naive from an     *)
(* aware datetime raises TypeError.  An event therefore carries its        *)
(* instant t and the format tz of its time string.                         *)
(***************************************************************************)
EXTENDS Integers, Sequences, FiniteSets, TLC

VARIABLES
    dd_in,        \* the list handed to _remove_duplicates
    dd_out,       \* the list it returned
    dd_out2,      \* the list it returned when handed dd_out
    dd_variant,   \* which of the three copies of _remove_duplicates ran
    dd_phase,     \* "input" | "once" | "twice"
    cl_profile,   \* which cluster of events the sources deliver
    cl_variant,   \* the copy of _remove_duplicates that scans the cluster
    cl_n,         \* number of events of the cluster scanned so far
    cl_first,     \* the first event of the input
    cl_varied,    \* some scanned event differs from the first
    cl_unique,    \* unique_earthquakes after cl_n iterations
    earthquake_data, \* the fused event list of the current request
    location,     \* the query location of the current request, "none" before it
    seismic_score, \* the bundle _calculate_advanced_seismic_score returned
    predictor,    \* the EarthquakeMLPredictor of the process: is_trained and its estimators
    n_trainings,  \* number of fast_train_models calls that reached the estimators
    last_call,    \* the operation of the predictor called last
    result,       \* what that call returned
    rk_probability, \* the probability handed to _determine_enhanced_risk_level
    rk_magnitude, \* the magnitude handed to it
    rk_stress,    \* seismic_score['stress_index'] handed to it
    rk_anomaly,   \* seismic_score['anomaly_detected'] handed to it
    rk_level,     \* the level it returned
    rk_prev,      \* the level it returned before one argument was raised
    rk_raised,    \* the argument raised last: "none" | "probability" | "magnitude"
    fo_outcome,   \* how the request to each feed URL ends: "ok" | "http_error" | "timeout"
    fo_payload,   \* the events each feed URL holds
    fo_requested, \* the feed URLs the call has requested
    fo_result,    \* the list get_comprehensive_earthquake_data returned
    fo_phase,     \* "pending" | "done"
    ag_input,     \* what one analysis hands to _calculate_comprehensive_risk besides predictions
    ag_predictions, \* the predictions dict of the last call
    ag_risk,      \* the risk assessment that call returned
    ag_prev,      \* predictions and assessment of the call before it
    cs_indicators, \* the indicators dict handed to _classify_stress_pattern
    cs_label,     \* the label it returned
    nz_raw,       \* a raw feed record handed to a parser
    nz_event,     \* what the parser made of it: an event, or dropped
    pb_parser,    \* the batch parser handed a feed document
    pb_batch,     \* the features of that document, in feed order
    pb_events     \* [returned |-> the list the parser returned], <<>> before it ran

ddVars == <<dd_in, dd_out, dd_out2, dd_variant, dd_phase>>

clVars == <<cl_profile, cl_variant, cl_n, cl_first, cl_varied, cl_unique>>

rqVars == <<earthquake_data, location>>

mlVars == <<predictor, n_trainings, last_call, result>>

rkVars == <<rk_probability, rk_magnitude, rk_stress, rk_anomaly, rk_level, rk_prev, rk_raised>>

foVars == <<fo_outcome, fo_payload, fo_requested, fo_result, fo_phase>>

agVars == <<ag_input, ag_predictions, ag_risk, ag_prev>>

csVars == <<cs_indicators, cs_label>>

nzVars == <<nz_raw, nz_event>>

pbVars == <<pb_parser, pb_batch, pb_events>>

auxVars == <<foVars, agVars, csVars, nzVars, pbVars>>

vars == <<ddVars, clVars, rqVars, seismic_score, mlVars, rkVars, auxVars>>

(***************************************************************************)
(* Bounds of the model.                                                    *)
(***************************************************************************)
MaxLen == 3

\* size of the synthetic cluster
ClusterSize == 15

\* number of bursts of identical records a fused list is made of
MaxBursts == 3

\* number of training calls that reach the estimators
MaxTrainings == 2

Abs(x) == IF x < 0 THEN -x ELSE x

Min(a, b) == IF a < b THEN a ELSE b

Max(a, b) == IF a > b THEN a ELSE b

(***************************************************************************)
(* Deduplicator: the three copies of _remove_duplicates.                   *)
(***************************************************************************)
Variants == {"indian", "international", "combined"}

\* float('inf')
Inf == 1000000000

DedupMags == {30, 34, 38}

DedupTimes == {0, 1800}

DedupPositions == {0, 10}

TimeFormats == {"naive", "aware"}

DedupEvents == [mag : DedupMags, t : DedupTimes, tz : TimeFormats, pos : DedupPositions]

\* (time1 - time2) raises when one datetime is naive and the other aware
Comparable(eq, existing) == eq.tz = existing.tz

\* abs((time1 - time2).total_seconds()), with the except branch's value
TimeDiff(eq, existing, onError) ==
    IF Comparable(eq, existing) THEN Abs(eq.t - existing.t) ELSE onError

\* geodesic(..).kilometers
Distance(eq, existing) == Abs(eq.pos - existing.pos)

MagDiffSigned(eq, existing) == eq.mag - existing.mag

\* abs(eq.magnitude - existing.magnitude), in tenths
MagDiff(eq, existing) == Abs(eq.mag - existing.mag)

IsDuplicateIndianTightMag(eq, existing) ==
    /\ TimeDiff(eq, existing, Inf) < 1800
    /\ Distance(eq, existing) < 10
    /\ MagDiff(eq, existing) < 4

\* IndianEarthquakeService._remove_duplicates: time_diff = float('inf') on error
IsDuplicateIndian(eq, existing) ==
    /\ TimeDiff(eq, existing, Inf) < 1800
    /\ Distance(eq, existing) < 10
    /\ MagDiff(eq, existing) < 5

\* InternationalEarthquakeService._remove_duplicates: time_diff = 0 on error
IsDuplicateInternational(eq, existing) ==
    /\ TimeDiff(eq, existing, 0) < 1800
    /\ Distance(eq, existing) < 10
    /\ MagDiff(eq, existing) < 5

\* CombinedEarthquakeService._remove_duplicates: 10 km and one hour, no magnitude test
IsDuplicateCombined(eq, existing) ==
    /\ Distance(eq, existing) < 10
    /\ TimeDiff(eq, existing, 0) < 3600

IsDuplicate(variant, eq, existing) ==
    CASE variant = "indian" -> IsDuplicateIndian(eq, existing)
      [] variant = "international" -> IsDuplicateInternational(eq, existing)
      [] variant = "combined" -> IsDuplicateCombined(eq, existing)

\* A merging deduplicator: the surviving record takes the larger magnitude.
DedupStepMerging(variant, unique_earthquakes, eq) ==
    IF \E i \in 1..Len(unique_earthquakes) : IsDuplicate(variant, eq, unique_earthquakes[i])
    THEN LET first == CHOOSE i \in 1..Len(unique_earthquakes) :
                         /\ IsDuplicate(variant, eq, unique_earthquakes[i])
                         /\ \A j \in 1..(i - 1) : ~IsDuplicate(variant, eq, unique_earthquakes[j])
         IN  [unique_earthquakes EXCEPT ![first].mag = Max(@, eq.mag)]
    ELSE Append(unique_earthquakes, eq)

\* One iteration of "for eq in earthquakes": the inner scan, then the append.
DedupStep(variant, unique_earthquakes, eq) ==
    IF \E i \in 1..Len(unique_earthquakes) : IsDuplicate(variant, eq, unique_earthquakes[i])
    THEN unique_earthquakes
    ELSE Append(unique_earthquakes, eq)

RECURSIVE DedupLoop(_, _, _, _)
DedupLoop(variant, earthquakes, unique_earthquakes, k) ==
    IF k > Len(earthquakes)
    THEN unique_earthquakes
    ELSE DedupLoop(variant, earthquakes, DedupStep(variant, unique_earthquakes, earthquakes[k]), k + 1)

\* _remove_duplicates(earthquakes)
RemoveDuplicates(variant, earthquakes) ==
    IF earthquakes = <<>> THEN <<>> ELSE DedupLoop(variant, earthquakes, <<>>, 1)

(***************************************************************************)
(* Deduplication of one list, and of its own output.                       *)
(***************************************************************************)
(***************************************************************************)
(* Arithmetic.  Floating-point values are fixed-point integers: scores and *)
(* predicted magnitudes in thousandths, probabilities in thousandths of a  *)
(* percent.  Divisions round towards minus infinity.                       *)
(***************************************************************************)
RECURSIVE SumSeq(_, _)
SumSeq(s, k) == IF k = 0 THEN 0 ELSE s[k] + SumSeq(s, k - 1)

\* sum(..) / np.sum(..)
Sum(s) == SumSeq(s, Len(s))

RECURSIVE MaxSeq(_, _)
MaxSeq(s, k) == IF k = 1 THEN s[1] ELSE Max(s[k], MaxSeq(s, k - 1))

RECURSIVE MinSeq(_, _)
MinSeq(s, k) == IF k = 1 THEN s[1] ELSE Min(s[k], MinSeq(s, k - 1))

\* max(..) and min(..) of a non-empty list
MaxOf(s) == MaxSeq(s, Len(s))

MinOf(s) == MinSeq(s, Len(s))

\* min(hi, max(lo, x))

RECURSIVE SqrtSearch(_, _, _)
SqrtSearch(x, lo, hi) ==
    IF lo = hi
    THEN lo
    ELSE LET mid == (lo + hi + 1) \div 2
         IN  IF mid * mid <= x THEN SqrtSearch(x, mid, hi) ELSE SqrtSearch(x, lo, mid - 1)

\* floor of the square root (np.std takes the root of the variance)
ISqrt(x) == SqrtSearch(x, 0, 46340)

\* n * sum(x^2) - (sum x)^2: n^2 times the population variance np.std uses
SpreadOf(s) ==
    Len(s) * Sum([i \in 1..Len(s) |-> s[i] * s[i]]) - Sum(s) * Sum(s)

\* 1000 * log10(k) for k = 1 .. 33
Log10Table ==
    <<0, 301, 477, 602, 699, 778, 845, 903, 954, 1000, 1041, 1079, 1114, 1146, 1176,
      1204, 1230, 1255, 1279, 1301, 1322, 1342, 1362, 1380, 1398, 1415, 1431, 1447,
      1462, 1477, 1491, 1505, 1519>>

\* 1000 * log10(x / 1000) for 1000 <= x < 33000, interpolated between integers
Log10Milli(x) ==
    LET q == x \div 1000
        r == x % 1000
    IN  Log10Table[q] + ((Log10Table[q + 1] - Log10Table[q]) * r) \div 1000

\* 1000 * 10^(-0.15 d): the energy of an event d tenths of magnitude below another
Pow10Table ==
    <<1000, 708, 501, 355, 251, 178, 126, 89, 63, 45, 32, 22, 16, 11, 8, 6, 4, 3, 2, 1>>

EnergyRatio(d) == IF d < Len(Pow10Table) THEN Pow10Table[d + 1] ELSE 0

\* 1000 * log10(sum of 10^(1.5 M + 4.8)) over a non-empty list of magnitudes in tenths
LogEnergyMilli(mags) ==
    LET top == MaxOf(mags)
        total == Sum([i \in 1..Len(mags) |-> EnergyRatio(top - mags[i])])
    IN  150 * top + 4800 + Log10Milli(total)

\* numerator and denominator of the least-squares slope of y against 0 .. n-1
\* (np.polyfit(x, y, 1)[0]); the denominator is positive for n >= 2
SlopeNum(y) ==
    LET n == Len(y)
    IN  n * Sum([i \in 1..n |-> (i - 1) * y[i]]) - Sum([i \in 1..n |-> i - 1]) * Sum(y)

SlopeDen(n) ==
    n * Sum([i \in 1..n |-> (i - 1) * (i - 1)])
        - Sum([i \in 1..n |-> i - 1]) * Sum([i \in 1..n |-> i - 1])

\* the weight of y[i] in the quadratic coefficient of np.polyfit(x, y, 2) over
\* x = 0 .. n-1: coefficient = 12 * sum(QuadWeight * y) / sum(QuadWeight^2)
QuadWeight(n, i) == 3 * (2 * (i - 1) - n + 1) * (2 * (i - 1) - n + 1) - (n * n - 1)

\* the time string of a sorts after the time string of b: a later instant, or the
\* same instant written with a UTC offset against one written without
TimeStringAfter(a, b) ==
    \/ a.age < b.age
    \/ a.age = b.age /\ a.tz = "aware" /\ b.tz = "naive"

RECURSIVE InsertByTime(_, _)
InsertByTime(sorted, eq) ==
    IF sorted = <<>>
    THEN <<eq>>
    ELSE IF TimeStringAfter(eq, Head(sorted))
         THEN <<eq>> \o sorted
         ELSE <<Head(sorted)>> \o InsertByTime(Tail(sorted), eq)

RECURSIVE SortRecentFirstFrom(_, _, _)
SortRecentFirstFrom(list, sorted, k) ==
    IF k > Len(list)
    THEN sorted
    ELSE SortRecentFirstFrom(list, InsertByTime(sorted, list[k]), k + 1)

\* sorted(earthquakes, key=lambda x: x.time, reverse=True): most recent first, equal
\* time strings keep their order
SortRecentFirst(list) == SortRecentFirstFrom(list, <<>>, 1)

Take(s, n) == SubSeq(s, 1, Min(n, Len(s)))

(***************************************************************************)
(* Seismic Feature Scorer (EarthquakeMLPredictor).  A fused event is       *)
(* [mag, age, tz, depth, lat]: magnitude in tenths, age in hours before    *)
(* datetime.utcnow(), format of the time string, depth in km, and latitude *)
(* in tenths of a degree north of the query location, on its meridian.     *)
(***************************************************************************)
\* 1000 * sqrt(x), to the precision the integer width allows
SqrtMilli(x) ==
    IF x < 2000 THEN ISqrt(x * 1000000)
    ELSE IF x < 200000 THEN ISqrt(x * 10000) * 10
    ELSE IF x < 20000000 THEN ISqrt(x * 100) * 100
    ELSE ISqrt(x) * 1000

Mags(eqs) == [i \in 1..Len(eqs) |-> eqs[i].mag]

\* geodesic((center_lat, center_lon), (eq.latitude, eq.longitude)).kilometers
DistanceKm(eq) == (Abs(eq.lat) * 111) \div 10

\* now - datetime.fromisoformat(eq.time.replace('Z', '')): now is offset-naive, and
\* the subtraction raises TypeError for a time string that carries an offset
NowMinusRaises(eqs) == \E i \in 1..Len(eqs) : eqs[i].tz = "aware"

\* [eq for eq in earthquakes if (now - time).total_seconds() < 3600 * hours]
Recent(eqs, hours) == LET Within(eq) == eq.age < hours IN SelectSeq(eqs, Within)

\* the zone of _get_fast_regional_risk nearest to each query location of the model:
\* its risk and its approx_distance to the location
Locations == {"tokyo", "delhi_region", "mid_ocean"}

NearestZone(loc) ==
    CASE loc = "tokyo" -> [risk |-> 900, km |-> 0]
      [] loc = "delhi_region" -> [risk |-> 700, km |-> 250]
      [] loc = "mid_ocean" -> [risk |-> 900, km |-> 5000]

\* _get_fast_regional_risk
FastRegionalRisk(loc) ==
    LET zone == NearestZone(loc)
    IN  IF zone.km < 500
        THEN Max(100, (zone.risk * Max(0, 500 - zone.km)) \div 500)
        ELSE 100

\* -slope of log10(N) against M, in thousandths
BValue(mags) ==
    LET lo == MinOf(mags)
        bins == MaxOf(mags) - lo + 1
        counts == [k \in 1..bins |->
                      Cardinality({i \in 1..Len(mags) : mags[i] >= lo + k - 1})]
        logs == [k \in 1..bins |-> Log10Table[counts[k]]]
        num == SlopeNum(logs)
    IN  IF Abs(num) < 100000000
        THEN -((num * 10) \div SlopeDen(bins))
        ELSE -((num \div SlopeDen(bins)) * 10)

\* _calculate_gutenberg_richter_score
GutenbergRichterScore(eqs) ==
    IF Len(eqs) < 10 THEN 1000
    ELSE IF MaxOf(Mags(eqs)) - MinOf(Mags(eqs)) + 1 < 3 THEN 1000
    ELSE Max(100, Min(2000, BValue(Mags(eqs))))

\* 1000 * std / mean of a list of non-negative numbers with a positive sum
CoefficientOfVariation(xs) == SqrtMilli(SpreadOf(xs)) \div Sum(xs)

\* _calculate_temporal_clustering_score
TemporalClusteringScore(eqs) ==
    IF Len(eqs) < 3 THEN 100
    ELSE LET sorted == SortRecentFirst(eqs)
             intervals == [i \in 1..(Len(eqs) - 1) |-> Abs(sorted[i + 1].age - sorted[i].age)]
         IN  IF Sum(intervals) = 0 THEN 500
             ELSE Min(1000, Max(100, CoefficientOfVariation(intervals) \div 2))

\* _calculate_spatial_clustering_score
SpatialClusteringScore(eqs) ==
    IF Len(eqs) < 3 THEN 100
    ELSE LET distances == [i \in 1..Len(eqs) |-> DistanceKm(eqs[i])]
         IN  IF Sum(distances) = 0 THEN 500
             ELSE Max(100, Min(1000, 1000 - CoefficientOfVariation(distances) \div 3))

\* _calculate_tectonic_stress_index
TectonicStressIndex(eqs, loc) ==
    LET regional_stress == FastRegionalRisk(loc)
        recent_earthquakes == Recent(eqs, 168)
    IN  IF recent_earthquakes = <<>> THEN regional_stress
        ELSE LET energy_factor == Min(1000, LogEnergyMilli(Mags(recent_earthquakes)) \div 20)
                 depths == [i \in 1..Len(recent_earthquakes) |-> recent_earthquakes[i].depth]
                 depth_factor == Max(500, 1000 - (Sum(depths) * 10) \div Len(depths))
                 stress_index == (regional_stress * 4 + energy_factor * 3 + depth_factor * 3) \div 10
             IN  Min(1000, Max(100, stress_index))

RECURSIVE InsertByTimeEnergy(_, _)
InsertByTimeEnergy(sorted, eq) ==
    IF sorted = <<>>
    THEN <<eq>>
    ELSE IF \/ eq.age > Head(sorted).age
            \/ (eq.age = Head(sorted).age /\ eq.mag < Head(sorted).mag)
         THEN <<eq>> \o sorted
         ELSE <<Head(sorted)>> \o InsertByTimeEnergy(Tail(sorted), eq)

RECURSIVE SortOldestFirstFrom(_, _, _)
SortOldestFirstFrom(list, sorted, k) ==
    IF k > Len(list)
    THEN sorted
    ELSE SortOldestFirstFrom(list, InsertByTimeEnergy(sorted, list[k]), k + 1)

\* sorted(zip(times, energies))
SortOldestFirst(list) == SortOldestFirstFrom(list, <<>>, 1)

\* 1000 * (0.5 + 10 * second-order coefficient of np.log(cumulative_energy + 1))
EnergyAcceleration(eqs) ==
    LET sorted == SortOldestFirst(eqs)
        n == Len(sorted)
        y == [i \in 1..n |-> (LogEnergyMilli(Mags(SubSeq(sorted, 1, i))) * 2303) \div 10000]
        qy == Sum([i \in 1..n |-> QuadWeight(n, i) * y[i]])
        qq == Sum([i \in 1..n |-> QuadWeight(n, i) * QuadWeight(n, i)])
    IN  500 + (12 * qy) \div (qq \div 100)

\* _calculate_energy_release_pattern
EnergyReleasePattern(eqs) ==
    IF Len(eqs) < 5 THEN 500
    ELSE Min(1000, Max(100, EnergyAcceleration(eqs)))

\* _calculate_foreshock_pattern
ForeshockPattern(eqs) ==
    IF Len(eqs) < 5 THEN 100
    ELSE LET recent_mags == Mags(Take(SortRecentFirst(eqs), 10))
             num == SlopeNum(recent_mags)
             den == SlopeDen(Len(recent_mags))
         IN  IF num > 0 THEN Min(1000, (200 * num) \div den) ELSE 100

\* _calculate_scientific_base_probability, in thousandths of a percent
ScientificBaseProbability(n24, n7, n30, gr_score, temporal_score, spatial_score) ==
    LET daily_factor == Min(3, n24 + 1)
        stress_factor == Max(500, 2000 - gr_score)
        clustering2 == temporal_score + spatial_score
        probability ==
            IF n7 > 0 /\ 30 * n7 < 35 * n30
            THEN (n7 * daily_factor * stress_factor * clustering2) \div 140
            ELSE (n30 * (IF n7 > 0 THEN 5 ELSE 1) * daily_factor * stress_factor * clustering2)
                     \div 600
    IN  Min(15000, Max(10, probability))

\* _calculate_predicted_magnitude, in thousandths
CalculatePredictedMagnitude(eqs, gr_score) ==
    IF eqs = <<>> THEN 3000
    ELSE LET recent_mags == Mags(Take(eqs, 20))
             mean_mag == (Sum(recent_mags) * 100) \div Len(recent_mags)
             max_mag == MaxOf(recent_mags) * 100
             std_mag == SqrtMilli(SpreadOf(recent_mags)) \div (10 * Len(recent_mags))
             gr_correction == Max(0, (1000 - gr_score) \div 2)
             predicted == mean_mag + std_mag \div 2 + gr_correction
         IN  Min(8000, Min(max_mag + 1000, Max(2000, predicted)))

\* _assess_data_quality
AssessDataQuality(eqs) ==
    IF eqs = <<>> THEN 0
    ELSE LET ages == [i \in 1..Len(eqs) |-> eqs[i].age]
             quantity_score == Min(1000, Len(eqs) * 20)
             coverage_score ==
                 IF Len(eqs) > 1
                 THEN Min(1000, ((MaxOf(ages) - MinOf(ages)) * 1000) \div 720)
                 ELSE 100
             completeness_score ==
                 Min(1000, ((MaxOf(Mags(eqs)) - MinOf(Mags(eqs))) * 1000) \div 30)
         IN  (quantity_score + coverage_score + completeness_score) \div 3

\* the rate rules with the weekly-against-monthly rule tried before the daily ones
DetermineActivityTrendWeeklyFirst(n24, n7, n30) ==
    IF 20 * n7 > 7 * n30 THEN "moderately_increasing"
    ELSE IF 7 * n24 > 2 * n7 THEN "rapidly_increasing"
    ELSE IF 14 * n24 > 3 * n7 THEN "increasing"
    ELSE IF 14 * n24 < n7 THEN "decreasing"
    ELSE "stable"

\* _determine_activity_trend
DetermineActivityTrend(n24, n7, n30) ==
    IF 7 * n24 > 2 * n7 THEN "rapidly_increasing"
    ELSE IF 14 * n24 > 3 * n7 THEN "increasing"
    ELSE IF 20 * n7 > 7 * n30 THEN "moderately_increasing"
    ELSE IF 14 * n24 < n7 THEN "decreasing"
    ELSE "stable"

\* _detect_statistical_anomaly
DetectStatisticalAnomaly(eqs, temporal_score, spatial_score) ==
    LET clustering_anomaly == temporal_score > 700 /\ spatial_score > 700
        magnitude_anomaly ==
            IF Len(eqs) >= 5 /\ Len(eqs) > 5
            THEN LET recent_mags == Mags(SubSeq(eqs, 1, 5))
                     historical_mags == Mags(SubSeq(eqs, 6, Len(eqs)))
                 IN  Len(historical_mags) * Sum(recent_mags)
                        > 5 * Sum(historical_mags) + 25 * Len(historical_mags)
            ELSE FALSE
    IN  clustering_anomaly \/ magnitude_anomaly

\* _calculate_advanced_seismic_score; called on a list NowMinusRaises does not hold of
AdvancedSeismicScore(eqs, loc) ==
    LET recent_24h == Recent(eqs, 24)
        recent_7d == Recent(eqs, 168)
        recent_30d == Recent(eqs, 720)
        gr == GutenbergRichterScore(eqs)
        temporal == TemporalClusteringScore(eqs)
        spatial == SpatialClusteringScore(eqs)
    IN  [gr_score |-> gr,
         temporal_score |-> temporal,
         spatial_score |-> spatial,
         stress_index |-> TectonicStressIndex(eqs, loc),
         energy_pattern |-> EnergyReleasePattern(eqs),
         foreshock_score |-> ForeshockPattern(eqs),
         base_probability |->
             ScientificBaseProbability(Len(recent_24h), Len(recent_7d), Len(recent_30d),
                                       gr, temporal, spatial),
         predicted_magnitude |-> CalculatePredictedMagnitude(eqs, gr),
         data_quality |-> AssessDataQuality(eqs),
         activity_trend |-> DetermineActivityTrend(Len(recent_24h), Len(recent_7d), Len(recent_30d)),
         anomaly_detected |-> DetectStatisticalAnomaly(eqs, temporal, spatial),
         recent_24h_count |-> Len(recent_24h),
         recent_7d_count |-> Len(recent_7d),
         recent_30d_count |-> Len(recent_30d)]

(***************************************************************************)
(* Ensemble Predictor (EarthquakeMLPredictor).                             *)
(***************************************************************************)
\* _calculate_precise_probability, in thousandths of a percent
PreciseProbability(score, predicted_magnitude, is_anomaly) ==
    LET magnitude_factor ==
            IF predicted_magnitude >= 6000 THEN 20
            ELSE IF predicted_magnitude >= 5000 THEN 15
            ELSE IF predicted_magnitude >= 4000 THEN 12
            ELSE 10
        anomaly_factor == IF is_anomaly THEN 18 ELSE 10
        stress_factor == 1000 + score.stress_index \div 2
        energy_factor == 800 + (score.energy_pattern * 4) \div 10
        foreshock_factor == 1000 + (score.foreshock_score * 3) \div 10
        p1 == (score.base_probability * magnitude_factor * anomaly_factor) \div 100
        p2 == (p1 * stress_factor) \div 1000
        p3 == (p2 * energy_factor) \div 1000
        final_probability == (p3 * foreshock_factor) \div 1000
    IN  Min(20000, Max(10, final_probability))

\* _calculate_prediction_confidence
PredictionConfidence(n_predictions, score, data_count) ==
    LET model_confidence == Min(1000, (n_predictions * 1000) \div 3)
        data_confidence == score.data_quality
        quantity_confidence == Min(1000, (data_count * 1000) \div 30)
        temporal_confidence ==
            IF data_count > 0 THEN Min(1000, score.recent_7d_count * 100) ELSE 0
        confidence ==
            (model_confidence * 30 + data_confidence * 25
                + quantity_confidence * 25 + temporal_confidence * 20) \div 100
    IN  Min(999, Max(1, confidence))

RiskLevels == <<"Low", "Low-Moderate", "Moderate", "High", "Critical">>

\* 300000 * mag_score * 0.3, with mag_score = (8.0 - magnitude) / 6.0
MagScoreInverted(magnitude) == Min(90000, 15 * (8000 - magnitude))

\* 300000 * mag_score * 0.3, with mag_score = min(1.0, (magnitude - 2.0) / 6.0)
MagScore(magnitude) == Min(90000, 15 * (magnitude - 2000))

\* risk_score of _determine_enhanced_risk_level, times 300000
RiskScore(probability, magnitude, stress_index, anomaly_detected) ==
    6 * probability + MagScore(magnitude) + 60 * stress_index
        + (IF anomaly_detected THEN 6000 ELSE 0)

\* _determine_enhanced_risk_level(probability, magnitude, seismic_score)
DetermineEnhancedRiskLevel(probability, magnitude, stress_index, anomaly_detected) ==
    LET risk_score == RiskScore(probability, magnitude, stress_index, anomaly_detected)
    IN  IF risk_score >= 240000 \/ magnitude >= 7000 THEN "Critical"
        ELSE IF risk_score >= 180000 \/ magnitude >= 6000 THEN "High"
        ELSE IF risk_score >= 120000 \/ magnitude >= 5000 THEN "Moderate"
        ELSE IF risk_score >= 60000 \/ magnitude >= 4000 THEN "Low-Moderate"
        ELSE "Low"

\* round(x, 2) of a value in thousandths
Round2(x) == ((x + 5) \div 10) * 10

NoDataText == "No data available"

\* the result predict_earthquake_probability returns for an empty list
NoDataResult ==
    [model_status |-> "no_earthquake_data",
     probability_24h |-> NoDataText,
     predicted_magnitude |-> NoDataText,
     confidence_score |-> NoDataText,
     risk_level |-> NoDataText]

\* the exception left predict_earthquake_probability
RaisedResult == [model_status |-> "raised"]

\* _create_data_driven_prediction for a non-empty list NowMinusRaises does not hold of
DataDrivenPrediction(eqs) ==
    LET n24 == Len(Recent(eqs, 24))
        n7 == Len(Recent(eqs, 168))
        n30 == Len(Recent(eqs, 720))
        magnitudes == Mags(eqs)
        n == Len(magnitudes)
        mean_magnitude == (Sum(magnitudes) * 100) \div n
        max_magnitude == MaxOf(magnitudes) * 100
        std_magnitude == IF n > 1 THEN SqrtMilli(SpreadOf(magnitudes)) \div (10 * n) ELSE 500
        raw_probability ==
            IF n24 > 0 THEN Min(15000, n24 * 8000 + (n7 * 3000) \div 7)
            ELSE IF n7 > 0 THEN Min(10000, (n7 * 5000) \div 7 + (n30 * 2000) \div 30)
            ELSE IF n30 > 0 THEN Min(5000, (n30 * 4000) \div 30 + 500)
            ELSE 200
        recent_mags == Take(magnitudes, 5)
        raw_magnitude ==
            IF n >= 3
            THEN Min(max_magnitude + 800,
                     (Sum(recent_mags) * 100) \div Len(recent_mags) + (std_magnitude * 3) \div 10)
            ELSE mean_magnitude + 300
        predicted_magnitude == Max(2500, Min(7500, raw_magnitude))
        probability_24h == Max(100, Min(20000, raw_probability))
        confidence ==
            IF n >= 20 THEN 700 ELSE IF n >= 10 THEN 600 ELSE IF n >= 5 THEN 500 ELSE 300
        risk_level ==
            IF probability_24h >= 10000 \/ predicted_magnitude >= 6000 THEN "High"
            ELSE IF probability_24h >= 5000 \/ predicted_magnitude >= 5000 THEN "Moderate"
            ELSE IF probability_24h >= 2000 \/ predicted_magnitude >= 4000 THEN "Low-Moderate"
            ELSE "Low"
    IN  [model_status |-> "statistical_data_driven",
         probability_24h |-> Round2(probability_24h),
         predicted_magnitude |-> Round2(predicted_magnitude),
         confidence_score |-> confidence,
         risk_level |-> risk_level,
         anomaly_detected |-> 7 * n24 > 2 * n7,
         ensemble_models |-> 2]

\* a fallback that answers with the no-data result
FallbackSentinel(eqs) == NoDataResult

\* the except branch of predict_earthquake_probability
FallbackPrediction(eqs) ==
    IF NowMinusRaises(eqs) THEN RaisedResult ELSE DataDrivenPrediction(eqs)

\* what a fitted estimator remembers: the training call that fitted it and the range of
\* the magnitudes it was fitted to (0 = never fitted)
Unfitted == [by |-> 0, lo |-> 0, hi |-> 0]

\* outcomes of one call of a fitted regressor's predict(): it raises, or it returns a
\* value within the targets it was fitted to
RegressorOutcomes == {"raise", "lo", "hi"}

\* outcomes of anomaly_detector.predict()
DetectorOutcomes == {"raise", "normal", "anomaly"}

RegressorValue(model, outcome) == (IF outcome = "lo" THEN model.lo ELSE model.hi) * 100

UseEnsembleWhenData(trained, n_features) == n_features > 0

\* if self.is_trained and len(features_scaled) > 0
UseEnsemble(trained, n_features) == trained /\ n_features > 0

\* the ensemble with a raising anomaly detector counted as an anomaly
EnsemblePredictionRaisedIsAnomaly(eqs, score, self, rf, xgb, iso) ==
    LET predictions ==
            (IF rf = "raise" THEN <<>> ELSE <<RegressorValue(self.magnitude_predictor, rf)>>)
                \o (IF xgb = "raise" THEN <<>>
                    ELSE <<RegressorValue(self.gradient_booster, xgb)>>)
        models_used ==
            (IF rf = "raise" THEN {} ELSE {"RandomForest"})
                \cup (IF xgb = "raise" THEN {} ELSE {"XGBoost"})
                \cup (IF iso = "raise" THEN {} ELSE {"IsolationForest"})
        ensemble == UseEnsemble(self.is_trained, Len(eqs))
        ml_predicted_magnitude ==
            IF predictions # <<>>
            THEN (Sum(predictions) * 4) \div (Len(predictions) * 4)
            ELSE LET last == Mags(SubSeq(eqs, Max(1, Len(eqs) - 4), Len(eqs)))
                 IN  (Sum(last) * 100) \div Len(last)
        is_anomaly == IF ensemble THEN iso # "normal" ELSE score.anomaly_detected
        predicted_magnitude ==
            IF ensemble
            THEN (ml_predicted_magnitude * 6 + score.predicted_magnitude * 4) \div 10
            ELSE score.predicted_magnitude
        ml_prob_24h ==
            IF ensemble
            THEN PreciseProbability(score, predicted_magnitude, is_anomaly)
            ELSE score.base_probability
        confidence ==
            IF ensemble THEN PredictionConfidence(Len(predictions), score, Len(eqs)) ELSE 500
    IN  [model_status |-> IF ensemble THEN "advanced_ensemble" ELSE "seismological_statistical",
         probability_24h |-> Round2(ml_prob_24h),
         predicted_magnitude |-> Round2(predicted_magnitude),
         confidence_score |-> confidence,
         risk_level |-> DetermineEnhancedRiskLevel(ml_prob_24h, predicted_magnitude,
                                                   score.stress_index, score.anomaly_detected),
         anomaly_detected |-> is_anomaly,
         ensemble_models |-> IF ensemble THEN Len(predictions) ELSE 0,
         models_used |-> IF ensemble THEN models_used ELSE {},
         recent_7d_events |-> score.recent_7d_count,
         data_quality_score |-> score.data_quality]

\* the try block of predict_earthquake_probability once seismic_score is computed; rf,
\* xgb and iso are the outcomes of the three models' predict()
EnsemblePrediction(eqs, score, self, rf, xgb, iso) ==
    LET predictions ==
            (IF rf = "raise" THEN <<>> ELSE <<RegressorValue(self.magnitude_predictor, rf)>>)
                \o (IF xgb = "raise" THEN <<>>
                    ELSE <<RegressorValue(self.gradient_booster, xgb)>>)
        models_used ==
            (IF rf = "raise" THEN {} ELSE {"RandomForest"})
                \cup (IF xgb = "raise" THEN {} ELSE {"XGBoost"})
                \cup (IF iso = "raise" THEN {} ELSE {"IsolationForest"})
        ensemble == UseEnsemble(self.is_trained, Len(eqs))
        ml_predicted_magnitude ==
            IF predictions # <<>>
            THEN (Sum(predictions) * 4) \div (Len(predictions) * 4)
            ELSE LET last == Mags(SubSeq(eqs, Max(1, Len(eqs) - 4), Len(eqs)))
                 IN  (Sum(last) * 100) \div Len(last)
        is_anomaly == IF ensemble THEN iso = "anomaly" ELSE score.anomaly_detected
        predicted_magnitude ==
            IF ensemble
            THEN (ml_predicted_magnitude * 6 + score.predicted_magnitude * 4) \div 10
            ELSE score.predicted_magnitude
        ml_prob_24h ==
            IF ensemble
            THEN PreciseProbability(score, predicted_magnitude, is_anomaly)
            ELSE score.base_probability
        confidence ==
            IF ensemble THEN PredictionConfidence(Len(predictions), score, Len(eqs)) ELSE 500
    IN  [model_status |-> IF ensemble THEN "advanced_ensemble" ELSE "seismological_statistical",
         probability_24h |-> Round2(ml_prob_24h),
         predicted_magnitude |-> Round2(predicted_magnitude),
         confidence_score |-> confidence,
         risk_level |-> DetermineEnhancedRiskLevel(ml_prob_24h, predicted_magnitude,
                                                   score.stress_index, score.anomaly_detected),
         anomaly_detected |-> is_anomaly,
         ensemble_models |-> IF ensemble THEN Len(predictions) ELSE 0,
         models_used |-> IF ensemble THEN models_used ELSE {},
         recent_7d_events |-> score.recent_7d_count,
         data_quality_score |-> score.data_quality]

\* outcomes of self.scaler.transform(features)
TransformOutcomes == {"ok", "raise"}

\* predict_earthquake_probability(earthquakes, location_lat, location_lon): every result
\* the outcomes of the fitted estimators allow
PredictEarthquakeProbability(self, eqs, loc) ==
    IF eqs = <<>> THEN {NoDataResult}
    ELSE IF NowMinusRaises(eqs) THEN {FallbackPrediction(eqs)}
    ELSE LET score == AdvancedSeismicScore(eqs, loc)
         IN  IF self.is_trained
             THEN {FallbackPrediction(eqs)}
                      \cup {EnsemblePrediction(eqs, score, self, rf, xgb, iso) :
                                rf \in RegressorOutcomes, xgb \in RegressorOutcomes,
                                iso \in DetectorOutcomes}
             ELSE {EnsemblePrediction(eqs, score, self, "raise", "raise", "raise")}

\* EarthquakeMLPredictor.__init__
NewPredictor ==
    [is_trained |-> FALSE,
     scaler |-> Unfitted,
     magnitude_predictor |-> Unfitted,
     gradient_booster |-> Unfitted,
     anomaly_detector |-> Unfitted]

\* the fit() call of fast_train_models that raises, if any
TrainFailures == {"none", "gradient_booster"}

\* a training that asks for three events only
FastTrainModelsFromThree(self, eqs, call, failure) ==
    IF Len(eqs) < 3 \/ NowMinusRaises(eqs) THEN self
    ELSE LET fit == [by |-> call, lo |-> MinOf(Mags(eqs)), hi |-> MaxOf(Mags(eqs))]
         IN  [is_trained |-> TRUE,
              scaler |-> fit,
              magnitude_predictor |-> fit,
              gradient_booster |-> fit,
              anomaly_detector |-> fit]

\* fast_train_models(historical_earthquakes, location_lat, location_lon), as the call-th
\* training call of the process
FastTrainModels(self, eqs, call, failure) ==
    IF Len(eqs) < 10 THEN self
    ELSE IF NowMinusRaises(eqs) THEN self
    ELSE LET fit == [by |-> call, lo |-> MinOf(Mags(eqs)), hi |-> MaxOf(Mags(eqs))]
         IN  IF failure = "gradient_booster"
             THEN [self EXCEPT !.scaler = fit, !.magnitude_predictor = fit]
             ELSE [is_trained |-> TRUE,
                   scaler |-> fit,
                   magnitude_predictor |-> fit,
                   gradient_booster |-> fit,
                   anomaly_detector |-> fit]

\* the least-squares slope of y against 0 .. n-1, in thousandths of y's unit times scale
SlopeMilli(y, scale) ==
    LET num == SlopeNum(y) * scale
        den == SlopeDen(Len(y))
    IN  IF num >= 0 THEN num \div den ELSE -((-num) \div den)

\* two time strings of different formats cannot be subtracted
IntervalRaises(eqs) ==
    \E i \in 2..Len(eqs) : eqs[i - 1].tz # eqs[i].tz

\* 1000 / (1 + mean(time_intervals) / 24); the intervals telescope to the age of the
\* last event minus the age of the first
ClusteringCoefficient(eqs) ==
    LET k == Len(eqs) - 1
        span == eqs[Len(eqs)].age - eqs[1].age
        den == 24 * k + span
    IN  IF den > 0 THEN (24000 * k) \div den
        ELSE IF den = 0 THEN Inf
        ELSE -((24000 * k) \div (-den))

\* the stress_indicators _classify_stress_pattern reads, in thousandths; has_* tells
\* whether analyze_stress_patterns stored the key
StressIndicators(eqs) ==
    LET n == Len(eqs)
        mags == Mags(eqs)
        lats == [i \in 1..n |-> eqs[i].lat]
        cumulative == [i \in 1..n |-> (LogEnergyMilli(SubSeq(mags, 1, i)) * 2303) \div 1000]
    IN  [has_magnitude_trend |-> n >= 3,
         magnitude_trend |-> IF n >= 3 THEN SlopeMilli(mags, 100) ELSE 0,
         has_clustering_coefficient |-> n >= 2,
         clustering_coefficient |-> IF n >= 2 THEN ClusteringCoefficient(eqs) ELSE 0,
         has_energy_accumulation_rate |-> n >= 5,
         energy_accumulation_rate |-> IF n >= 5 THEN SlopeMilli(cumulative, 1) ELSE 0,
         has_spatial_spread |-> n >= 3,
         spatial_spread |-> IF n >= 3 THEN (SqrtMilli(SpreadOf(lats)) \div n) \div 10 ELSE 0]

\* the classifier with the magnitude-trend rules tried before the clustering and
\* energy rules
ClassifyStressPatternTrendFirst(indicators) ==
    LET magnitude_trend ==
            IF indicators.has_magnitude_trend THEN indicators.magnitude_trend ELSE 0
        clustering_coeff ==
            IF indicators.has_clustering_coefficient
            THEN indicators.clustering_coefficient ELSE 0
        energy_rate ==
            IF indicators.has_energy_accumulation_rate
            THEN indicators.energy_accumulation_rate ELSE 0
        spatial_spread ==
            IF indicators.has_spatial_spread THEN indicators.spatial_spread ELSE 0
    IN  IF magnitude_trend > 100 /\ clustering_coeff > 300 THEN "escalating_sequence"
        ELSE IF magnitude_trend < -100 THEN "decreasing_activity"
        ELSE IF clustering_coeff > 500 /\ spatial_spread < 100 THEN "tight_clustering"
        ELSE IF energy_rate > 2000 THEN "rapid_energy_release"
        ELSE IF spatial_spread > 300 THEN "distributed_activity"
        ELSE "normal_background"

\* _classify_stress_pattern(indicators)
ClassifyStressPattern(indicators) ==
    LET magnitude_trend ==
            IF indicators.has_magnitude_trend THEN indicators.magnitude_trend ELSE 0
        clustering_coeff ==
            IF indicators.has_clustering_coefficient
            THEN indicators.clustering_coefficient ELSE 0
        energy_rate ==
            IF indicators.has_energy_accumulation_rate
            THEN indicators.energy_accumulation_rate ELSE 0
        spatial_spread ==
            IF indicators.has_spatial_spread THEN indicators.spatial_spread ELSE 0
    IN  IF magnitude_trend > 100 /\ clustering_coeff > 300 THEN "escalating_sequence"
        ELSE IF clustering_coeff > 500 /\ spatial_spread < 100 THEN "tight_clustering"
        ELSE IF energy_rate > 2000 THEN "rapid_energy_release"
        ELSE IF magnitude_trend < -100 THEN "decreasing_activity"
        ELSE IF spatial_spread > 300 THEN "distributed_activity"
        ELSE "normal_background"

\* analyze_stress_patterns(earthquakes, location_lat, location_lon)
AnalyzeStressPatterns(eqs) ==
    IF eqs = <<>> THEN [stress_pattern |-> "insufficient_data"]
    ELSE IF IntervalRaises(eqs) THEN [stress_pattern |-> "analysis_error"]
    ELSE [stress_pattern |-> ClassifyStressPattern(StressIndicators(eqs)),
          stress_indicators |-> StressIndicators(eqs)]

NoEvent == [mag |-> 0, t |-> 0, tz |-> "none", pos |-> 0]

DedupIdle ==
    /\ dd_in = <<>>
    /\ dd_out = <<>>
    /\ dd_out2 = <<>>
    /\ dd_variant = "none"
    /\ dd_phase = "input"

ClusterIdle ==
    /\ cl_profile = "none"
    /\ cl_variant = "none"
    /\ cl_n = 0
    /\ cl_first = NoEvent
    /\ cl_varied = FALSE
    /\ cl_unique = <<>>

NoScore == [raised |-> FALSE, computed |-> FALSE]

RequestIdle ==
    /\ earthquake_data = <<>>
    /\ location = "none"

ScoreIdle == seismic_score = NoScore

NoResult == [model_status |-> "none"]

RiskIdle ==
    /\ rk_probability = 0
    /\ rk_magnitude = 0
    /\ rk_stress = 0
    /\ rk_anomaly = FALSE
    /\ rk_level = "none"
    /\ rk_prev = "none"
    /\ rk_raised = "none"

FanoutIdle ==
    /\ fo_outcome = <<>>
    /\ fo_payload = <<>>
    /\ fo_requested = {}
    /\ fo_result = <<>>
    /\ fo_phase = "none"

AggregatorIdle ==
    /\ ag_input = <<>>
    /\ ag_predictions = <<>>
    /\ ag_risk = <<>>
    /\ ag_prev = <<>>

ClassifierIdle ==
    /\ cs_indicators = <<>>
    /\ cs_label = "none"

NormalizerIdle ==
    /\ nz_raw = <<>>
    /\ nz_event = <<>>

BatchIdle ==
    /\ pb_parser = "none"
    /\ pb_batch = <<>>
    /\ pb_events = <<>>

AuxIdle == FanoutIdle /\ AggregatorIdle /\ ClassifierIdle /\ NormalizerIdle /\ BatchIdle

PredictorIdle ==
    /\ predictor = NewPredictor
    /\ n_trainings = 0
    /\ last_call = "none"
    /\ result = NoResult

InitDedup == DedupIdle /\ ClusterIdle /\ RequestIdle /\ ScoreIdle /\ PredictorIdle /\ RiskIdle /\ AuxIdle

\* a source delivers one more event
AddEvent(e) ==
    /\ dd_phase = "input"
    /\ Len(dd_in) < MaxLen
    /\ dd_in' = Append(dd_in, e)
    /\ UNCHANGED <<dd_out, dd_out2, dd_variant, dd_phase, clVars, rqVars, seismic_score, mlVars, rkVars, auxVars>>

RunDedup(variant) ==
    /\ dd_phase = "input"
    /\ dd_out' = RemoveDuplicates(variant, dd_in)
    /\ dd_variant' = variant
    /\ dd_phase' = "once"
    /\ UNCHANGED <<dd_in, dd_out2, clVars, rqVars, seismic_score, mlVars, rkVars, auxVars>>

\* the deduplicator is run on its own output
RunDedupAgain ==
    /\ dd_phase = "once"
    /\ dd_out2' = RemoveDuplicates(dd_variant, dd_out)
    /\ dd_phase' = "twice"
    /\ UNCHANGED <<dd_in, dd_out, dd_variant, clVars, rqVars, seismic_score, mlVars, rkVars, auxVars>>

NextDedup ==
    \/ \E e \in DedupEvents : AddEvent(e)
    \/ \E variant \in Variants : RunDedup(variant)
    \/ RunDedupAgain

SpecDedup == InitDedup /\ [][NextDedup]_vars

(***************************************************************************)
(* A synthetic cluster: ClusterSize events within 5 km of each other, with *)
(* magnitudes 3.0 .. 3.4, scanned by the loop of _remove_duplicates one    *)
(* iteration at a time.  The profile fixes the time strings of the         *)
(* cluster: "wide" spreads them over two hours in both formats, the two    *)
(* "tight" profiles keep them in one format and less than 1800 s apart.    *)
(***************************************************************************)
ClusterProfiles == {"wide", "tight_naive", "tight_aware"}

ClusterMags == {30, 34}

ClusterPositions == {0, 5}

ClusterTimes(profile) ==
    IF profile = "wide" THEN {0, 7199} ELSE {0, 1799}

ClusterFormats(profile) ==
    CASE profile = "wide" -> TimeFormats
      [] profile = "tight_naive" -> {"naive"}
      [] profile = "tight_aware" -> {"aware"}

ClusterEvents(profile) ==
    [mag : ClusterMags, t : ClusterTimes(profile), tz : ClusterFormats(profile),
     pos : ClusterPositions]

InitCluster ==
    /\ DedupIdle
    /\ RequestIdle
    /\ ScoreIdle
    /\ PredictorIdle
    /\ AuxIdle
    /\ RiskIdle
    /\ cl_profile \in ClusterProfiles
    /\ cl_variant \in Variants
    /\ cl_n = 0
    /\ cl_first = NoEvent
    /\ cl_varied = FALSE
    /\ cl_unique = <<>>

\* one iteration of "for eq in earthquakes" over the cluster
ScanClusterEvent(eq) ==
    /\ cl_n < ClusterSize
    /\ cl_unique' = DedupStep(cl_variant, cl_unique, eq)
    /\ cl_n' = cl_n + 1
    /\ cl_first' = IF cl_n = 0 THEN eq ELSE cl_first
    /\ cl_varied' = (cl_varied \/ (cl_n > 0 /\ eq # cl_first))
    /\ UNCHANGED <<cl_profile, cl_variant, ddVars, rqVars, seismic_score, mlVars, rkVars, auxVars>>

NextCluster == \E eq \in ClusterEvents(cl_profile) : ScanClusterEvent(eq)

SpecCluster == InitCluster /\ [][NextCluster]_vars

(***************************************************************************)
(* Fused event lists.  Each source answers a request with a burst of       *)
(* records: one record, or five records of one swarm an hour apart from    *)
(* each other, most recent first.  A request gathers up to MaxBursts       *)
(* bursts.                                                                 *)
(***************************************************************************)
FusedEvents ==
    { [mag |-> 30, age |-> 1, tz |-> "naive", depth |-> 10, lat |-> 1],
      [mag |-> 31, age |-> 100, tz |-> "naive", depth |-> 10, lat |-> 2],
      [mag |-> 45, age |-> 2, tz |-> "naive", depth |-> 10, lat |-> 0],
      [mag |-> 62, age |-> 500, tz |-> "naive", depth |-> 150, lat |-> 30],
      [mag |-> 5, age |-> 1000, tz |-> "naive", depth |-> 10, lat |-> 1],
      [mag |-> 95, age |-> 100, tz |-> "naive", depth |-> 30, lat |-> 10],
      [mag |-> 30, age |-> 1, tz |-> "aware", depth |-> 10, lat |-> 1] }

BurstSizes == {1, 5}

Burst(eq, size) == [i \in 1..size |-> [eq EXCEPT !.age = eq.age + (i - 1)]]

\* what the sources of one request can return: up to MaxBursts bursts, in task order
SourceResults(events) ==
    LET Bursts == {Burst(eq, size) : eq \in events, size \in BurstSizes}
    IN  UNION {[1..k -> Bursts] : k \in 0..MaxBursts}

RECURSIVE Extend(_, _)
\* all_earthquakes after "for result in results: all_earthquakes.extend(result)"
Extend(results, k) ==
    IF k = 0 THEN <<>> ELSE Extend(results, k - 1) \o results[k]

\* a fused event as the fields _remove_duplicates reads: instant in seconds, position
\* in km along the meridian
AsDedupEvent(eq) ==
    [mag |-> eq.mag, t |-> -3600 * eq.age, tz |-> eq.tz, pos |-> (eq.lat * 111) \div 10]

RECURSIVE CombinedDedupLoop(_, _, _)
\* CombinedEarthquakeService._remove_duplicates from its k-th iteration on
CombinedDedupLoop(earthquakes, unique_earthquakes, k) ==
    IF k > Len(earthquakes)
    THEN unique_earthquakes
    ELSE LET eq == earthquakes[k]
             is_duplicate ==
                 \E j \in 1..Len(unique_earthquakes) :
                     IsDuplicateCombined(AsDedupEvent(eq), AsDedupEvent(unique_earthquakes[j]))
         IN  CombinedDedupLoop(earthquakes,
                               IF is_duplicate THEN unique_earthquakes
                               ELSE Append(unique_earthquakes, eq),
                               k + 1)

\* unique_earthquakes[:200]
FusedCap == 200

\* get_comprehensive_earthquake_data: extend, _remove_duplicates, sort by time string
\* descending, keep the first 200
GetComprehensiveEarthquakeData(results) ==
    LET all_earthquakes == Extend(results, Len(results))
        unique_earthquakes == CombinedDedupLoop(all_earthquakes, <<>>, 1)
    IN  Take(SortRecentFirst(unique_earthquakes), FusedCap)

\* every fused list a request can gather from sources that report the given events
FusedLists(events) ==
    {GetComprehensiveEarthquakeData(results) : results \in SourceResults(events)}

ScorerLists == FusedLists(FusedEvents)

\* a request for loc gathers its fused list
FetchData(loc, eqs) ==
    /\ location = "none"
    /\ location' = loc
    /\ earthquake_data' = eqs
    /\ UNCHANGED <<seismic_score, ddVars, clVars, mlVars, rkVars, auxVars>>

\* _calculate_advanced_seismic_score(earthquake_data, location_lat, location_lon)
ComputeSeismicScore ==
    /\ location # "none"
    /\ seismic_score = NoScore
    /\ seismic_score' =
           IF NowMinusRaises(earthquake_data)
           THEN [raised |-> TRUE, computed |-> FALSE]
           ELSE [raised |-> FALSE, computed |-> TRUE,
                 bundle |-> AdvancedSeismicScore(earthquake_data, location)]
    /\ UNCHANGED <<rqVars, ddVars, clVars, mlVars, rkVars, auxVars>>

InitScore == DedupIdle /\ ClusterIdle /\ RequestIdle /\ ScoreIdle /\ PredictorIdle /\ RiskIdle /\ AuxIdle

NextScore ==
    \/ \E loc \in Locations, eqs \in ScorerLists : FetchData(loc, eqs)
    \/ ComputeSeismicScore

SpecScore == InitScore /\ [][NextScore]_vars

(***************************************************************************)
(* The predictor of the process.  A request fuses a list for a location,   *)
(* then calls the predictor's operations on it in any order; the predictor *)
(* lives on from request to request.                                       *)
(***************************************************************************)
PredictorEvents == {eq \in FusedEvents : eq.mag \in {5, 30, 62}}

PredictorLists == FusedLists(PredictorEvents)

InitPredictor ==
    /\ DedupIdle
    /\ ClusterIdle
    /\ RequestIdle
    /\ ScoreIdle
    /\ PredictorIdle
    /\ AuxIdle
    /\ RiskIdle

\* the next request begins: it gathers its fused list for its location
NewRequest(loc, eqs) ==
    /\ last_call # "fetch"
    /\ location' = loc
    /\ earthquake_data' = eqs
    /\ last_call' = "fetch"
    /\ result' = NoResult
    /\ UNCHANGED <<predictor, n_trainings, seismic_score, ddVars, clVars, rkVars, auxVars>>

\* fast_train_models(earthquake_data, lat, lon)
Train(failure) ==
    /\ location # "none"
    /\ n_trainings < MaxTrainings
    /\ predictor' = FastTrainModels(predictor, earthquake_data, n_trainings + 1, failure)
    /\ n_trainings' = IF predictor' = predictor THEN n_trainings ELSE n_trainings + 1
    /\ last_call' = "train"
    /\ result' = NoResult
    /\ UNCHANGED <<rqVars, seismic_score, ddVars, clVars, rkVars, auxVars>>

\* predict_earthquake_probability(earthquake_data, lat, lon)
Predict ==
    /\ location # "none"
    /\ result' \in PredictEarthquakeProbability(predictor, earthquake_data, location)
    /\ last_call' = "predict"
    /\ UNCHANGED <<predictor, n_trainings, rqVars, seismic_score, ddVars, clVars, rkVars, auxVars>>

\* analyze_stress_patterns(earthquake_data, lat, lon)
AnalyzeStress ==
    /\ location # "none"
    /\ result' = AnalyzeStressPatterns(earthquake_data)
    /\ last_call' = "stress"
    /\ UNCHANGED <<predictor, n_trainings, rqVars, seismic_score, ddVars, clVars, rkVars, auxVars>>

Next ==
    \/ \E loc \in Locations, eqs \in PredictorLists : NewRequest(loc, eqs)
    \/ \E failure \in TrainFailures : Train(failure)
    \/ Predict
    \/ AnalyzeStress

Spec == InitPredictor /\ [][Next]_vars

(***************************************************************************)
(* _determine_enhanced_risk_level called again with one argument raised.   *)
(***************************************************************************)
\* probabilities in thousandths of a percent
RiskProbabilities == {10, 3000, 7000, 10000, 13000, 17000, 20000}

\* magnitudes in thousandths
RiskMagnitudes == {900, 2000, 3000, 3990, 4000, 5000, 6000, 7000, 8000, 8900}

RiskStresses == {100, 500, 1000}

InitRisk ==
    /\ DedupIdle
    /\ ClusterIdle
    /\ RequestIdle
    /\ ScoreIdle
    /\ PredictorIdle
    /\ AuxIdle
    /\ rk_probability \in RiskProbabilities
    /\ rk_magnitude \in RiskMagnitudes
    /\ rk_stress \in RiskStresses
    /\ rk_anomaly \in BOOLEAN
    /\ rk_level = DetermineEnhancedRiskLevel(rk_probability, rk_magnitude, rk_stress, rk_anomaly)
    /\ rk_prev = "none"
    /\ rk_raised = "none"

RaiseProbability(p) ==
    /\ p > rk_probability
    /\ rk_probability' = p
    /\ rk_prev' = rk_level
    /\ rk_level' = DetermineEnhancedRiskLevel(p, rk_magnitude, rk_stress, rk_anomaly)
    /\ rk_raised' = "probability"
    /\ UNCHANGED <<rk_magnitude, rk_stress, rk_anomaly, ddVars, clVars, rqVars,
                   seismic_score, mlVars, auxVars>>

RaiseMagnitude(m) ==
    /\ m > rk_magnitude
    /\ rk_magnitude' = m
    /\ rk_prev' = rk_level
    /\ rk_level' = DetermineEnhancedRiskLevel(rk_probability, m, rk_stress, rk_anomaly)
    /\ rk_raised' = "magnitude"
    /\ UNCHANGED <<rk_probability, rk_stress, rk_anomaly, ddVars, clVars, rqVars,
                   seismic_score, mlVars, auxVars>>

NextRisk ==
    \/ \E p \in RiskProbabilities : RaiseProbability(p)
    \/ \E m \in RiskMagnitudes : RaiseMagnitude(m)

SpecRisk == InitRisk /\ [][NextRisk]_vars

(***************************************************************************)
(* The fan-out of get_comprehensive_earthquake_data for a query point      *)
(* outside India and Japan: the USGS location query and the global         *)
(* aggregator run under asyncio.gather(return_exceptions=True).  Each feed *)
(* URL answers with events, with a non-200 status, or not at all (timeout  *)
(* or connection error, an exception in the fetcher).  Positions are       *)
(* kilometres from the query point, all within the search radius.  An      *)
(* event carries its instant t and the UTC offset written in its time      *)
(* string: GeoJSON parsers write no offset, the RSS parser writes          *)
(* parsedate_to_datetime(pubDate).isoformat(), which keeps the offset of   *)
(* the publication date.                                                   *)
(***************************************************************************)
FeedUrls ==
    {"usgs_location", "usgs_global_feed", "emsc_global", "significant_day", "significant_week"}

FetchOutcomes == {"ok", "http_error", "timeout"}

RadiusKm == 500

FanoutEvent(pos, t) == [mag |-> 45, t |-> t, tz |-> "naive", pos |-> pos, offset |-> 0]

\* an RSS item published as "... 06:00:00 +0530": instant 1800, time string 05:30 ahead
RssEvent == [mag |-> 45, t |-> 1800, tz |-> "aware", pos |-> 400, offset |-> 19800]

\* what each URL would deliver if its request succeeded
FeedPayloads(url) ==
    CASE url = "usgs_location" -> {<<>>, <<FanoutEvent(0, 0)>>}
      [] url = "usgs_global_feed" -> {<<>>, <<FanoutEvent(0, 600)>>, <<FanoutEvent(100, 0)>>}
      [] url = "emsc_global" -> {<<>>, <<RssEvent>>}
      [] url = "significant_day" -> {<<>>, <<FanoutEvent(200, 7200)>>}
      [] url = "significant_week" ->
            {<<>>, <<FanoutEvent(300, 3600)>>, <<FanoutEvent(200, 7200), FanoutEvent(300, 3600)>>}

\* the time string of a sorts after the time string of b: the strings compare by the
\* date and clock time they spell, then a string with an offset after one without
TimeTextAfter(a, b) ==
    \/ a.t + a.offset > b.t + b.offset
    \/ a.t + a.offset = b.t + b.offset /\ a.tz = "aware" /\ b.tz = "naive"

RECURSIVE InsertByTimeText(_, _)
InsertByTimeText(sorted, eq) ==
    IF sorted = <<>>
    THEN <<eq>>
    ELSE IF TimeTextAfter(eq, Head(sorted))
         THEN <<eq>> \o sorted
         ELSE <<Head(sorted)>> \o InsertByTimeText(Tail(sorted), eq)

RECURSIVE SortLatestFirstFrom(_, _, _)
SortLatestFirstFrom(list, sorted, k) ==
    IF k > Len(list)
    THEN sorted
    ELSE SortLatestFirstFrom(list, InsertByTimeText(sorted, list[k]), k + 1)

\* list.sort(key=lambda x: x.time, reverse=True): by time string, equal strings keep
\* their order
SortLatestFirst(list) == SortLatestFirstFrom(list, <<>>, 1)

\* a fetcher whose request sits inside its own try: a failure yields no events
FetchFeed(url, outcome, payload) ==
    IF outcome[url] = "ok" THEN payload[url] ELSE <<>>

\* EarthquakeService.get_earthquakes_by_location
GetEarthquakesByLocation(outcome, payload) == FetchFeed("usgs_location", outcome, payload)

\* GlobalEarthquakeService._fetch_usgs_global_feed: the try is inside the loop over urls
FetchUsgsGlobalFeed(outcome, payload) == FetchFeed("usgs_global_feed", outcome, payload)

\* GlobalEarthquakeService._fetch_significant_earthquakes: one try around the loop over
\* urls, so an exception on the first url leaves the loop; a non-200 status does not
FetchSignificantEarthquakes(outcome, payload) ==
    IF outcome["significant_day"] = "timeout"
    THEN [earthquakes |-> <<>>, requested |-> {"significant_day"}]
    ELSE [earthquakes |-> FetchFeed("significant_day", outcome, payload)
                              \o FetchFeed("significant_week", outcome, payload),
          requested |-> {"significant_day", "significant_week"}]

\* "if distance <= radius_km"
WithinRadius(list, radius) == SelectSeq(list, LAMBDA eq : Abs(eq.pos) <= radius)

\* GlobalEarthquakeService.get_global_earthquakes
GetGlobalEarthquakes(outcome, payload, radius) ==
    LET all_earthquakes == FetchUsgsGlobalFeed(outcome, payload)
                               \o FetchFeed("emsc_global", outcome, payload)
                               \o FetchSignificantEarthquakes(outcome, payload).earthquakes
        filtered_earthquakes == WithinRadius(all_earthquakes, radius)
    IN  SortLatestFirst(RemoveDuplicates("indian", filtered_earthquakes))

\* get_comprehensive_earthquake_data, region neither india nor japan
ComprehensiveFanout(outcome, payload) ==
    LET all_earthquakes == GetEarthquakesByLocation(outcome, payload)
                               \o GetGlobalEarthquakes(outcome, payload, (RadiusKm * 3) \div 2)
        unique_earthquakes == SortLatestFirst(RemoveDuplicates("combined", all_earthquakes))
    IN  Take(unique_earthquakes, FusedCap)

InitFanout ==
    /\ DedupIdle
    /\ ClusterIdle
    /\ RequestIdle
    /\ ScoreIdle
    /\ PredictorIdle
    /\ RiskIdle
    /\ AggregatorIdle
    /\ ClassifierIdle
    /\ NormalizerIdle
    /\ BatchIdle
    /\ fo_outcome \in [FeedUrls -> FetchOutcomes]
    /\ fo_payload \in {p \in [FeedUrls -> UNION {FeedPayloads(u) : u \in FeedUrls}] :
                          \A u \in FeedUrls : p[u] \in FeedPayloads(u)}
    /\ fo_requested = {}
    /\ fo_result = <<>>
    /\ fo_phase = "pending"

\* one call of get_comprehensive_earthquake_data
RunFanout ==
    /\ fo_phase = "pending"
    /\ fo_requested' = {"usgs_location", "usgs_global_feed", "emsc_global"}
                           \cup FetchSignificantEarthquakes(fo_outcome, fo_payload).requested
    /\ fo_result' = ComprehensiveFanout(fo_outcome, fo_payload)
    /\ fo_phase' = "done"
    /\ UNCHANGED <<fo_outcome, fo_payload, ddVars, clVars, rqVars, seismic_score, mlVars, rkVars,
                   agVars, csVars, nzVars, pbVars>>

NextFanout == RunFanout

SpecFanout == InitFanout /\ [][NextFanout]_vars

(***************************************************************************)
(* The risk aggregator.  One analysis hands _calculate_comprehensive_risk  *)
(* its event list, the predictions dict, the stress analysis and the query *)
(* point; later analyses of the same data differ in the predictions only.  *)
(* Risks are in thousandths, the weighted sum in millionths.               *)
(***************************************************************************)
\* a lookup that answers a missing key with the 24-hour probability of the dict
DictGetProbability(dict, key, default) ==
    IF key \in DOMAIN dict THEN dict[key]
    ELSE IF "probability_24h" \in DOMAIN dict THEN dict.probability_24h
    ELSE default

\* dict.get(key, default)
DictGet(dict, key, default) == IF key \in DOMAIN dict THEN dict[key] ELSE default

\* stress_risk_map.get(stress_pattern, 0.3)
StressRiskMap(stress_pattern) ==
    CASE stress_pattern = "escalating_sequence" -> 800
      [] stress_pattern = "tight_clustering" -> 700
      [] stress_pattern = "rapid_energy_release" -> 900
      [] stress_pattern = "distributed_activity" -> 400
      [] stress_pattern = "decreasing_activity" -> 200
      [] stress_pattern = "normal_background" -> 300
      [] OTHER -> 300

\* _get_regional_risk_score: the base risk, or the nearest zone's risk scaled by
\* proximity within 500 km
GetRegionalRiskScore(loc) ==
    LET zone == NearestZone(loc)
    IN  IF zone.km < 500 THEN Max(100, (zone.risk * (500 - zone.km)) \div 500) ELSE 100

\* round(x, 3) of a value in millionths, in thousandths
Round3(x) == (x + 500) \div 1000

\* _calculate_comprehensive_risk(earthquakes, predictions, stress_analysis, lat, lon)
CalculateComprehensiveRisk(input, predictions) ==
    IF NowMinusRaises(input.earthquakes)
    THEN [overall_risk_score |-> 300, risk_level |-> "unknown"]
    ELSE LET recent_24h == Recent(input.earthquakes, 24)
             recent_7d == Recent(input.earthquakes, 168)
             activity_risk == Min(900, Len(recent_24h) * 200 + Len(recent_7d) * 50)
             ml_risk == DictGet(predictions, "probability_7d", 300)
             stress_risk ==
                 StressRiskMap(DictGet(input.stress_analysis, "stress_pattern", "normal_background"))
             regional_risk == GetRegionalRiskScore(input.loc)
             overall_risk == activity_risk * 300 + ml_risk * 400 + stress_risk * 200
                                 + regional_risk * 100
         IN  [overall_risk_score |-> Round3(overall_risk),
              risk_level |-> IF overall_risk >= 800000 THEN "very_high"
                             ELSE IF overall_risk >= 600000 THEN "high"
                             ELSE IF overall_risk >= 400000 THEN "moderate"
                             ELSE IF overall_risk >= 200000 THEN "low"
                             ELSE "very_low",
              recent_activity |-> activity_risk,
              ml_prediction |-> ml_risk,
              stress_pattern |-> stress_risk,
              regional_baseline |-> regional_risk]

\* the event lists of the analyses: empty, one event, or one burst
AggregatorLists == {eqs \in ScorerLists : Len(eqs) \in {0, 1, 5}}

\* what analyze_stress_patterns can hand over
StressAnalyses ==
    {[stress_pattern |-> label] :
        label \in {"escalating_sequence", "tight_clustering", "rapid_energy_release",
                   "decreasing_activity", "distributed_activity", "normal_background",
                   "insufficient_data", "analysis_error"}}

\* what the trained predict_earthquake_probability can hand over
AggregatorPredictions ==
    {[model_status |-> "advanced_ensemble", probability_24h |-> p, confidence_score |-> 500] :
        p \in {10, 5000, 20000}}

InitAggregator ==
    /\ DedupIdle
    /\ ClusterIdle
    /\ RequestIdle
    /\ ScoreIdle
    /\ PredictorIdle
    /\ RiskIdle
    /\ FanoutIdle
    /\ ClassifierIdle
    /\ NormalizerIdle
    /\ BatchIdle
    /\ ag_input \in [earthquakes : AggregatorLists, stress_analysis : StressAnalyses,
                     loc : Locations]
    /\ ag_predictions = <<>>
    /\ ag_risk = <<>>
    /\ ag_prev = <<>>

\* one call of _calculate_comprehensive_risk on the data of the analysis
AssessRisk(predictions) ==
    /\ ag_input # <<>>
    /\ ag_prev' = IF ag_predictions = <<>> THEN <<>>
                  ELSE [predictions |-> ag_predictions, risk |-> ag_risk]
    /\ ag_predictions' = predictions
    /\ ag_risk' = CalculateComprehensiveRisk(ag_input, predictions)
    /\ UNCHANGED <<ag_input, ddVars, clVars, rqVars, seismic_score, mlVars, rkVars,
                   foVars, csVars, nzVars, pbVars>>

NextAggregator == \E predictions \in AggregatorPredictions : AssessRisk(predictions)

SpecAggregator == InitAggregator /\ [][NextAggregator]_vars

(***************************************************************************)
(* The stress pattern classifier on indicator dicts with any subset of the *)
(* four keys present.  Values are in thousandths and sit on and around     *)
(* the thresholds of the rules.                                            *)
(***************************************************************************)
\* one key of the dict: absent, or present with one of vals
IndicatorEntries(vals) == {[has |-> FALSE, v |-> 0]} \cup {[has |-> TRUE, v |-> x] : x \in vals}

ClassifierIndicators ==
    {[has_magnitude_trend |-> mt.has, magnitude_trend |-> mt.v,
      has_clustering_coefficient |-> cc.has, clustering_coefficient |-> cc.v,
      has_energy_accumulation_rate |-> er.has, energy_accumulation_rate |-> er.v,
      has_spatial_spread |-> ss.has, spatial_spread |-> ss.v] :
        mt \in IndicatorEntries({-200, -100, 0, 100, 200}),
        cc \in IndicatorEntries({300, 400, 500, 600}),
        er \in IndicatorEntries({2000, 2500}),
        ss \in IndicatorEntries({50, 100, 300, 400})}

InitClassifier ==
    /\ DedupIdle
    /\ ClusterIdle
    /\ RequestIdle
    /\ ScoreIdle
    /\ PredictorIdle
    /\ RiskIdle
    /\ FanoutIdle
    /\ AggregatorIdle
    /\ NormalizerIdle
    /\ BatchIdle
    /\ cs_indicators \in ClassifierIndicators
    /\ cs_label = "none"

\* one call of _classify_stress_pattern
ClassifyIndicators ==
    /\ cs_label = "none"
    /\ cs_indicators # <<>>
    /\ cs_label' = ClassifyStressPattern(cs_indicators)
    /\ UNCHANGED <<cs_indicators, ddVars, clVars, rqVars, seismic_score, mlVars, rkVars,
                   foVars, agVars, nzVars, pbVars>>

NextClassifier == ClassifyIndicators

SpecClassifier == InitClassifier /\ [][NextClassifier]_vars

(***************************************************************************)
(* The normalizers of IndianEarthquakeService: one raw feed record goes    *)
(* through the parser of its feed kind and is emitted as an event or       *)
(* dropped.  A raw record is described by which of its fields are present  *)
(* and parseable; an event records where its time and its position were    *)
(* taken from.                                                             *)
(***************************************************************************)
FeedKinds == {"geojson", "emsc_rss", "earthquake_track_rss"}

RawRecords ==
    [kind : FeedKinds,
     coordinates : {"pair", "absent"},                \* geometry.coordinates
     time : {"milliseconds", "absent"},               \* properties.time
     datetime : {"iso", "unparseable", "absent"},     \* properties.datetime
     pub_date : {"rfc2822", "unparseable", "absent"}, \* <pubDate>
     description : {"coordinates", "malformed", "absent"}, \* coordinates in <description>
     region : {"India", "Japan", "Nepal"}]

Dropped == [status |-> "dropped"]

Emitted(time, position) == [status |-> "emitted", time |-> time, position |-> position]

\* the time of an RSS item: utcnow, replaced by the publication date when it parses
RssTime(raw) == IF raw.pub_date = "rfc2822" THEN "pub_date" ELSE "utcnow"

\* IndianEarthquakeService._parse_geojson_data, one feature
ParseGeojsonData(raw) ==
    IF raw.coordinates = "pair"
    THEN LET eq_time ==
                 IF raw.time = "milliseconds" THEN "timestamp"
                 ELSE IF raw.datetime = "iso" THEN "iso"
                 ELSE "utcnow"
         IN  Emitted(eq_time, "coordinates")
    ELSE Dropped

\* IndianEarthquakeService._parse_emsc_rss, one item
ParseEmscRss(raw) ==
    IF raw.description = "coordinates"
    THEN Emitted(RssTime(raw), "description")
    ELSE Dropped

\* IndianEarthquakeService._parse_earthquake_track_rss, one item
ParseEarthquakeTrackRss(raw) ==
    IF raw.description = "coordinates"
    THEN Emitted(RssTime(raw), "description")
    ELSE IF raw.region \in {"India", "Japan"}
         THEN Emitted(RssTime(raw), "region_default")
         ELSE Dropped

InitNormalizer ==
    /\ DedupIdle
    /\ ClusterIdle
    /\ RequestIdle
    /\ ScoreIdle
    /\ PredictorIdle
    /\ RiskIdle
    /\ FanoutIdle
    /\ AggregatorIdle
    /\ ClassifierIdle
    /\ BatchIdle
    /\ nz_raw \in RawRecords
    /\ nz_event = <<>>

\* the parser of the record's feed handles the record
NormalizeRecord ==
    /\ nz_raw # <<>>
    /\ nz_event = <<>>
    /\ nz_event' = CASE nz_raw.kind = "geojson" -> ParseGeojsonData(nz_raw)
                     [] nz_raw.kind = "emsc_rss" -> ParseEmscRss(nz_raw)
                     [] nz_raw.kind = "earthquake_track_rss" -> ParseEarthquakeTrackRss(nz_raw)
    /\ UNCHANGED <<nz_raw, ddVars, clVars, rqVars, seismic_score, mlVars, rkVars,
                   foVars, agVars, csVars, pbVars>>

NextNormalizer == NormalizeRecord

SpecNormalizer == InitNormalizer /\ [][NextNormalizer]_vars

(***************************************************************************)
(* The batch parsers of GeoJSON documents.  A document is a list of        *)
(* features; a feature either has a geometry with a coordinate pair or has *)
(* "geometry": null, on which feature.get('geometry', {}).get(..) and      *)
(* feature['geometry'][..] raise.  Latitudes and longitudes are in tenths  *)
(* of a degree.  The features of one document carry the same time, so the  *)
(* stable sort of get_earthquakes_by_location keeps their order.           *)
(***************************************************************************)
BatchParsers == {"indian_geojson", "international_geojson", "usgs_location"}

BatchFeatures ==
    {[shape |-> "no_geometry", latitude |-> 0, longitude |-> 0]}
        \cup [shape : {"feature"}, latitude : {-950, 0, 900}, longitude : {0, 1810}]

MaxBatch == 3

\* EarthquakeData(latitude=coords[1], longitude=coords[0], ..) for the features with a
\* geometry among the first upto features of the document, in feed order
FeatureEvents(batch, upto) ==
    LET kept == SelectSeq([k \in 1..upto |-> k], LAMBDA k : batch[k].shape = "feature")
    IN  [j \in 1..Len(kept) |->
            [item |-> kept[j], latitude |-> batch[kept[j]].latitude,
             longitude |-> batch[kept[j]].longitude]]

Malformed(batch) == {k \in 1..Len(batch) : batch[k].shape = "no_geometry"}

\* IndianEarthquakeService._parse_geojson_data: one try around the loop over features
ParseGeojsonBatch(batch) ==
    IF Malformed(batch) = {}
    THEN FeatureEvents(batch, Len(batch))
    ELSE FeatureEvents(batch, (CHOOSE k \in Malformed(batch) :
                                   \A j \in Malformed(batch) : k <= j) - 1)

\* InternationalEarthquakeService._parse_geojson_data: a try inside the loop
ParseGeojsonInternational(batch) == FeatureEvents(batch, Len(batch))

\* EarthquakeService.get_earthquakes_by_location, the loop over the response: any
\* exception leaves the function with [].  geodesic() on a latitude outside
\* [-90, 90] raises ValueError in geopy 2 and normalises it in geopy 1; the
\* repository pins neither.
ParseLocationResponse(batch) ==
    IF Malformed(batch) # {}
    THEN {<<>>}
    ELSE IF \E k \in 1..Len(batch) : batch[k].latitude < -900 \/ batch[k].latitude > 900
         THEN {<<>>, FeatureEvents(batch, Len(batch))}
         ELSE {FeatureEvents(batch, Len(batch))}

InitBatch ==
    /\ DedupIdle
    /\ ClusterIdle
    /\ RequestIdle
    /\ ScoreIdle
    /\ PredictorIdle
    /\ RiskIdle
    /\ FanoutIdle
    /\ AggregatorIdle
    /\ ClassifierIdle
    /\ NormalizerIdle
    /\ pb_parser \in BatchParsers
    /\ pb_batch \in UNION {[1..n -> BatchFeatures] : n \in 0..MaxBatch}
    /\ pb_events = <<>>

\* the parser runs over the document and returns its list
ParseBatch ==
    /\ pb_parser # "none"
    /\ pb_events = <<>>
    /\ \E earthquakes \in
              CASE pb_parser = "indian_geojson" -> {ParseGeojsonBatch(pb_batch)}
                [] pb_parser = "international_geojson" -> {ParseGeojsonInternational(pb_batch)}
                [] pb_parser = "usgs_location" -> ParseLocationResponse(pb_batch) :
           pb_events' = [returned |-> earthquakes]
    /\ UNCHANGED <<pb_parser, pb_batch, ddVars, clVars, rqVars, seismic_score, mlVars, rkVars,
                   foVars, agVars, csVars, nzVars>>

NextBatch == ParseBatch

SpecBatch == InitBatch /\ [][NextBatch]_vars

(***************************************************************************)
(* get_comprehensive_analysis: once its sources have answered, the handler *)
(* fuses their lists, trains the predictor of the process if the list has  *)
(* ten events, predicts, analyses stress and returns; nothing is awaited   *)
(* between the training and the prediction.                                *)
(***************************************************************************)
RECURSIVE EnhancedDedupLoop(_, _, _)
\* IndianEarthquakeService._remove_duplicates on fused events, from its k-th iteration on
EnhancedDedupLoop(earthquakes, unique_earthquakes, k) ==
    IF k > Len(earthquakes)
    THEN unique_earthquakes
    ELSE LET eq == earthquakes[k]
             is_duplicate ==
                 \E j \in 1..Len(unique_earthquakes) :
                     IsDuplicateIndian(AsDedupEvent(eq), AsDedupEvent(unique_earthquakes[j]))
         IN  EnhancedDedupLoop(earthquakes,
                               IF is_duplicate THEN unique_earthquakes
                               ELSE Append(unique_earthquakes, eq),
                               k + 1)

\* _combine_earthquake_data_enhanced(all_earthquakes): no cap on the length
CombineEarthquakeDataEnhanced(all_earthquakes) ==
    IF all_earthquakes = <<>> THEN <<>>
    ELSE SortRecentFirst(EnhancedDedupLoop(all_earthquakes, <<>>, 1))

\* every list the handler can fuse from what its sources return
AnalysisLists ==
    {CombineEarthquakeDataEnhanced(Extend(results, Len(results))) :
        results \in SourceResults(PredictorEvents)}

\* _train_ml_models(earthquakes, latitude, longitude): the five most recent events are
\* left out of a list of more than ten; train_models redirects to fast_train_models
TrainMlModels(self, earthquakes, call, failure) ==
    LET training_data == IF Len(earthquakes) > 10
                         THEN SubSeq(earthquakes, 6, Len(earthquakes))
                         ELSE earthquakes
    IN  FastTrainModels(self, training_data, call, failure)

\* the dict get_comprehensive_analysis returns: the error dict when a call raised, else
\* the analysis with the predictor's state at the return
AnalysisResponse(self, eqs, predictions) ==
    IF predictions = RaisedResult
    THEN [error |-> "raised"]
    ELSE [ml_predictions |-> predictions,
          stress_analysis |-> AnalyzeStressPatterns(eqs),
          model_info |-> [ml_trained |-> self.is_trained]]

\* get_comprehensive_analysis from the fused list on; failure names the fit() that
\* raises in this call's training, if any
GetComprehensiveAnalysis(failure) ==
    /\ last_call = "fetch"
    /\ n_trainings < MaxTrainings
    /\ predictor' = IF Len(earthquake_data) >= 10
                    THEN TrainMlModels(predictor, earthquake_data, n_trainings + 1, failure)
                    ELSE predictor
    /\ n_trainings' = IF predictor' = predictor THEN n_trainings ELSE n_trainings + 1
    /\ \E predictions \in PredictEarthquakeProbability(predictor', earthquake_data, location) :
           result' = AnalysisResponse(predictor', earthquake_data, predictions)
    /\ last_call' = IF failure = "none" THEN "analysis" ELSE "analysis_fit_failed"
    /\ UNCHANGED <<rqVars, seismic_score, ddVars, clVars, rkVars, auxVars>>

NextAnalysis ==
    \/ \E loc \in Locations, eqs \in AnalysisLists : NewRequest(loc, eqs)
    \/ \E failure \in TrainFailures : GetComprehensiveAnalysis(failure)

SpecAnalysis == InitPredictor /\ [][NextAnalysis]_vars

(***************************************************************************)
(* Properties of the Deduplicator.                                         *)
(***************************************************************************)
Range(s) == {s[i] : i \in 1..Len(s)}

CitedVariants == {"indian", "international"}

\* the three thresholds of the specification, on the events' own instants
Near(a, b) ==
    /\ Abs(a.t - b.t) < 1800
    /\ Abs(a.pos - b.pos) < 10
    /\ Abs(a.mag - b.mag) < 5

\* C1 (as claimed): the events are processed in input order, and the k-th event is
\* discarded exactly when an event accepted before it is less than 1800 s, less than
\* 10 km and less than 0.5 magnitude away; otherwise it is appended unmodified.  An
\* empty input gives an empty output.
C1_DiscardsExactlyWhenNear ==
    (dd_phase = "once" /\ dd_variant \in CitedVariants) =>
        /\ (dd_in = <<>> => dd_out = <<>>)
        /\ \A k \in 1..Len(dd_in) :
              LET accepted == RemoveDuplicates(dd_variant, SubSeq(dd_in, 1, k - 1))
                  after == RemoveDuplicates(dd_variant, SubSeq(dd_in, 1, k))
              IN  after = IF \E i \in 1..Len(accepted) : Near(dd_in[k], accepted[i])
                          THEN accepted
                          ELSE Append(accepted, dd_in[k])

\* C2: running the Deduplicator on its own output returns that output unchanged.
C2_DedupIdempotent == dd_phase = "twice" => dd_out2 = dd_out

C2_Witness ==
    /\ dd_phase = "twice"
    /\ Len(dd_out) >= 2
    /\ Len(dd_out) < Len(dd_in)
    /\ dd_out2 = dd_out

\* a pair at least 10 km, 1800 s or 0.5 magnitude apart
FarApart(a, b) ==
    \/ Abs(a.pos - b.pos) >= 10
    \/ Abs(a.t - b.t) >= 1800
    \/ Abs(a.mag - b.mag) >= 5

\* the same, with a time gap only between two time strings that can be subtracted
FarApartComparable(a, b) ==
    \/ Abs(a.pos - b.pos) >= 10
    \/ (a.tz = b.tz /\ Abs(a.t - b.t) >= 1800)
    \/ Abs(a.mag - b.mag) >= 5

InRange(x, lo, hi) == lo <= x /\ x <= hi

\* C5 (as claimed): for every event list, the empty and the single-event lists
\* included, the score bundle has gr_score in [0.1, 2.0]; temporal_score,
\* spatial_score, stress_index, energy_pattern and foreshock_score in [0.1, 1.0];
\* base_probability in [0.01, 15.0]; data_quality in [0, 1].
C5_ScoresWithinRanges ==
    seismic_score.computed =>
        LET b == seismic_score.bundle
        IN  /\ InRange(b.gr_score, 100, 2000)
            /\ InRange(b.temporal_score, 100, 1000)
            /\ InRange(b.spatial_score, 100, 1000)
            /\ InRange(b.stress_index, 100, 1000)
            /\ InRange(b.energy_pattern, 100, 1000)
            /\ InRange(b.foreshock_score, 100, 1000)
            /\ InRange(b.base_probability, 10, 15000)
            /\ InRange(b.data_quality, 0, 1000)

NumericStatuses ==
    {"advanced_ensemble", "seismological_statistical", "statistical_data_driven"}

\* C6 (as claimed): for every non-empty list, untrained or trained or on the fallback
\* path, the result of predict_earthquake_probability has probability_24h in
\* [0.01, 20.0] and predicted_magnitude in [2.0, 8.0].
C6_ResultWithinRanges ==
    (last_call = "predict" /\ result.model_status \in NumericStatuses) =>
        /\ InRange(result.probability_24h, 10, 20000)
        /\ InRange(result.predicted_magnitude, 2000, 8000)

RiskRank(level) == CHOOSE i \in 1..Len(RiskLevels) : RiskLevels[i] = level

\* C7: with Low < Low-Moderate < Moderate < High < Critical, the level returned by
\* _determine_enhanced_risk_level does not decrease when the probability alone or the
\* magnitude alone is raised.
C7_RiskLevelMonotone ==
    rk_raised # "none" => RiskRank(rk_prev) <= RiskRank(rk_level)

\* raising the magnitude alone has lifted the level from Low to Critical
C7_Witness ==
    /\ rk_raised = "magnitude"
    /\ rk_prev = "Low"
    /\ rk_level = "Critical"

\* C8: predict_earthquake_probability returns the no-data sentinel (model_status
\* no_earthquake_data, no number for probability, magnitude, confidence or risk
\* level) for the empty list in every predictor state, and never for a non-empty list.
C8_SentinelIffEmpty ==
    last_call = "predict" =>
        /\ earthquake_data = <<>> => result = NoDataResult
        /\ earthquake_data # <<>> => result.model_status # "no_earthquake_data"
        /\ result.model_status = "no_earthquake_data" =>
               /\ result.probability_24h = NoDataText
               /\ result.predicted_magnitude = NoDataText
               /\ result.confidence_score = NoDataText
               /\ result.risk_level = NoDataText

\* a trained predictor has returned the sentinel for the empty list
C8_Witness ==
    /\ last_call = "predict"
    /\ predictor.is_trained
    /\ earthquake_data = <<>>
    /\ result.model_status = "no_earthquake_data"

\* C9 (as claimed): untrained, predict on 3 events reports seismological_statistical
\* and a confidence_score made of the data-quality, data-quantity and recency terms of
\* the confidence formula with no model-agreement term.
C9_UntrainedConfidenceFromData ==
    (/\ last_call = "predict"
     /\ ~predictor.is_trained
     /\ Len(earthquake_data) = 3
     /\ result.model_status # "raised") =>
        /\ result.model_status = "seismological_statistical"
        /\ result.confidence_score =
               PredictionConfidence(0, [data_quality |-> result.data_quality_score,
                                        recent_7d_count |-> result.recent_7d_events], 3)

EnsembleStatuses == {"advanced_ensemble", "seismological_statistical"}

StatusFollowsTraining ==
    (last_call = "predict" /\ earthquake_data # <<>>
        /\ result.model_status \notin {"statistical_data_driven", "raised"}) =>
        /\ result.model_status \in EnsembleStatuses
        /\ result.model_status = "advanced_ensemble" <=> predictor.is_trained

OnlyTrainingChangesModels ==
    /\ predictor'.is_trained # predictor.is_trained => last_call' = "train"
    /\ last_call' \in {"predict", "stress"} => predictor' = predictor

\* C10: the predictor starts untrained; only a training call changes is_trained;
\* prediction and stress analysis change neither is_trained nor the models; and a
\* prediction on a non-empty list that does not take the fallback reports
\* advanced_ensemble exactly when is_trained holds, seismological_statistical exactly
\* when it does not.
C10_TwoStateMachine ==
    /\ ~predictor.is_trained
    /\ []StatusFollowsTraining
    /\ [][OnlyTrainingChangesModels]_vars

\* a predictor trained twice has answered with the ensemble
C10_Witness ==
    /\ last_call = "predict"
    /\ predictor.is_trained
    /\ n_trainings = MaxTrainings
    /\ result.model_status = "advanced_ensemble"

ShortTrainingChangesNothing ==
    (last_call' = "train" /\ Len(earthquake_data') < 10) =>
        /\ predictor' = predictor
        /\ result' = NoResult

\* C11: a training call with fewer than 10 events returns without error and leaves
\* is_trained, the scaler, the two regressors and the anomaly detector as they were.
C11_ShortTrainingIsNoOp == [][ShortTrainingChangesNothing]_vars

\* a trained predictor has been handed a short non-empty list to train on
C11_Witness ==
    /\ last_call = "train"
    /\ earthquake_data # <<>>
    /\ Len(earthquake_data) < 10
    /\ predictor.is_trained
    /\ result = NoResult

FittedBy(self) ==
    {self.scaler.by, self.magnitude_predictor.by, self.gradient_booster.by,
     self.anomaly_detector.by}

\* C12 (as claimed): whenever a prediction reads the scaler and the three models, after
\* a training call that failed part-way included, all four come from one completed
\* training call; a scaler of one training is never used with a model of another.
C12_PredictionReadsOneTraining ==
    (last_call = "predict" /\ predictor.is_trained /\ earthquake_data # <<>>
        /\ result.model_status # "raised") =>
        /\ Cardinality(FittedBy(predictor)) = 1
        /\ 0 \notin FittedBy(predictor)

(***************************************************************************)
(* Properties of the fan-out.                                              *)
(***************************************************************************)
\* the result holds an event at the place and time of eq
Delivered(eq) ==
    \E j \in 1..Len(fo_result) :
        /\ Abs(fo_result[j].pos - eq.pos) < 10
        /\ Abs(fo_result[j].t - eq.t) < 3600

\* C13 (as claimed): whatever subset of the feed requests fails or times out, every
\* other feed is still requested, every event of a feed that answered is in the
\* result (itself or through a duplicate at the same place and time), and the
\* result is empty only when no feed that answered delivered an event.
C13_PartialResultsSurvive ==
    fo_phase = "done" =>
        /\ fo_requested = FeedUrls
        /\ \A url \in FeedUrls :
               fo_outcome[url] = "ok" =>
                   \A i \in 1..Len(fo_payload[url]) : Delivered(fo_payload[url][i])
        /\ fo_result = <<>> =>
               \A url \in FeedUrls : fo_outcome[url] = "ok" => fo_payload[url] = <<>>

\* C14 (as claimed): a prediction over a non-empty event list, whatever its time
\* strings, returns a result labelled with a model status and does not raise, with
\* an untrained and with a trained predictor.
C14_PredictionNeverRaises ==
    (last_call = "predict" /\ earthquake_data # <<>>) =>
        /\ result # RaisedResult
        /\ result.model_status \in NumericStatuses

(***************************************************************************)
(* Properties of the activity trend.                                       *)
(***************************************************************************)
\* number of fetched events less than hours old
CountWithin(hours) ==
    Cardinality({i \in 1..Len(earthquake_data) : earthquake_data[i].age < hours})

\* the trend label of the rate rules, rates compared after clearing denominators:
\* daily = d, weekly = w / 7, monthly = m / 30
TrendOfRates(d, w, m) ==
    CASE 7 * d > 2 * w -> "rapidly_increasing"
      [] 7 * d <= 2 * w /\ 14 * d > 3 * w -> "increasing"
      [] 14 * d <= 3 * w /\ 20 * w > 7 * m -> "moderately_increasing"
      [] 14 * d <= 3 * w /\ 20 * w <= 7 * m /\ 14 * d < w -> "decreasing"
      [] OTHER -> "stable"

\* C15: activity_trend is the first matching rule among daily > 2 weekly, daily > 1.5
\* weekly, weekly > 1.5 monthly, daily < 0.5 weekly, else stable; and ten events with
\* five of them in the last 24 hours give rapidly_increasing or increasing.
C15_TrendFollowsRates ==
    seismic_score.computed =>
        /\ seismic_score.bundle.activity_trend =
               TrendOfRates(CountWithin(24), CountWithin(168), CountWithin(720))
        /\ (Len(earthquake_data) = 10 /\ CountWithin(24) = 5) =>
               seismic_score.bundle.activity_trend \in {"rapidly_increasing", "increasing"}

C15_Witness ==
    /\ seismic_score.computed
    /\ Len(earthquake_data) = 10
    /\ CountWithin(24) = 5
    /\ seismic_score.bundle.activity_trend = "rapidly_increasing"

(***************************************************************************)
(* Properties of the risk-level formula.                                   *)
(***************************************************************************)
\* 300000 times 0.4 (p / 20) + 0.3 clamp((m - 2) / 6, [0, 1]) + 0.2 s + 0.1 (0.2 if a)
ClampedRiskScore(p, m, s, a) ==
    6 * p + Max(0, Min(90000, 15 * (m - 2000))) + 60 * s + (IF a THEN 6000 ELSE 0)

LevelOfScore(score, m) ==
    CASE score >= 240000 \/ m >= 7000 -> "Critical"
      [] score < 240000 /\ m < 7000 /\ (score >= 180000 \/ m >= 6000) -> "High"
      [] score < 180000 /\ m < 6000 /\ (score >= 120000 \/ m >= 5000) -> "Moderate"
      [] score < 120000 /\ m < 5000 /\ (score >= 60000 \/ m >= 4000) -> "Low-Moderate"
      [] OTHER -> "Low"

\* C16 (as claimed): for every probability, magnitude, stress index and anomaly flag
\* the risk level is the level of the score whose magnitude term is clamped to
\* [0, 1], so that a magnitude below 2 contributes nothing rather than a penalty.
C16_LevelOfClampedScore ==
    rk_level # "none" =>
        rk_level = LevelOfScore(ClampedRiskScore(rk_probability, rk_magnitude, rk_stress, rk_anomaly),
                                rk_magnitude)

(***************************************************************************)
(* Properties of the risk aggregator.                                      *)
(***************************************************************************)
\* number of events of the analysis less than hours old
AnalysisCountWithin(hours) ==
    Cardinality({i \in 1..Len(ag_input.earthquakes) : ag_input.earthquakes[i].age < hours})

Assessed(risk) == risk # <<>> /\ risk.risk_level # "unknown"

WeightedSum ==
    /\ ag_risk.recent_activity =
           Min(900, 200 * AnalysisCountWithin(24) + 50 * AnalysisCountWithin(168))
    /\ ag_risk.overall_risk_score =
           (300 * ag_risk.recent_activity + 400 * ag_risk.ml_prediction
                + 200 * ag_risk.stress_pattern + 100 * ag_risk.regional_baseline + 500) \div 1000

\* C17 (as claimed): the overall score is 0.3 activity + 0.4 ml + 0.2 stress + 0.1
\* regional with activity = min(0.9, 0.2 count_24h + 0.05 count_7d), and ml_risk comes
\* from the prediction passed in: two assessments of the same data whose predictions
\* differ in probability use different ml_risk values.
C17_MlRiskFromPrediction ==
    Assessed(ag_risk) =>
        /\ WeightedSum
        /\ (ag_prev # <<>> /\ Assessed(ag_prev.risk)
               /\ ag_prev.predictions.probability_24h # ag_predictions.probability_24h) =>
               ag_prev.risk.ml_prediction # ag_risk.ml_prediction

(***************************************************************************)
(* Properties of the stress pattern classifier.                            *)
(***************************************************************************)
\* the value an indicator counts as: 0 when its key is missing
Counted(has, v) == IF has THEN v ELSE 0

StressLabels ==
    {"escalating_sequence", "tight_clustering", "rapid_energy_release", "decreasing_activity",
     "distributed_activity", "normal_background"}

\* the label of the first matching rule, each rule guarded by the failure of the
\* rules listed before it
FirstMatchingRule(mt, cc, er, ss) ==
    LET r1 == mt > 100 /\ cc > 300
        r2 == cc > 500 /\ ss < 100
        r3 == er > 2000
        r4 == mt < -100
        r5 == ss > 300
    IN  CASE r1 -> "escalating_sequence"
          [] ~r1 /\ r2 -> "tight_clustering"
          [] ~r1 /\ ~r2 /\ r3 -> "rapid_energy_release"
          [] ~r1 /\ ~r2 /\ ~r3 /\ r4 -> "decreasing_activity"
          [] ~r1 /\ ~r2 /\ ~r3 /\ ~r4 /\ r5 -> "distributed_activity"
          [] OTHER -> "normal_background"

\* C18: the classifier returns the label of the first matching rule in the listed
\* order, a missing indicator counting as 0, and the label is one of the six.
C18_FirstMatchingRuleWins ==
    cs_label # "none" =>
        /\ cs_label \in StressLabels
        /\ cs_label =
               FirstMatchingRule(
                   Counted(cs_indicators.has_magnitude_trend, cs_indicators.magnitude_trend),
                   Counted(cs_indicators.has_clustering_coefficient,
                           cs_indicators.clustering_coefficient),
                   Counted(cs_indicators.has_energy_accumulation_rate,
                           cs_indicators.energy_accumulation_rate),
                   Counted(cs_indicators.has_spatial_spread, cs_indicators.spatial_spread))

\* two later rules match as well, and the spatial spread is missing
C18_Witness ==
    /\ cs_label = "tight_clustering"
    /\ ~cs_indicators.has_spatial_spread
    /\ cs_indicators.has_energy_accumulation_rate
    /\ cs_indicators.energy_accumulation_rate > 2000
    /\ cs_indicators.has_magnitude_trend
    /\ cs_indicators.magnitude_trend < -100

(***************************************************************************)
(* Properties of the normalizers.                                          *)
(***************************************************************************)
\* C19 (as claimed): a raw record with no millisecond timestamp, no parseable
\* publication date and no parseable ISO time is dropped, and no emitted event is
\* stamped with the clock time of the parse.
C19_NoClockStampedEvent ==
    nz_event # <<>> =>
        /\ (nz_raw.time = "absent" /\ nz_raw.pub_date # "rfc2822" /\ nz_raw.datetime # "iso") =>
               nz_event.status = "dropped"
        /\ nz_event.status = "emitted" => nz_event.time # "utcnow"

\* C20 (as claimed): a raw record with no coordinate pair in its structured fields
\* and none in its description is dropped, and no emitted event sits at a default
\* position substituted for its region.
C20_NoDefaultPosition ==
    nz_event # <<>> =>
        /\ (nz_raw.coordinates = "absent" /\ nz_raw.description # "coordinates") =>
               nz_event.status = "dropped"
        /\ nz_event.status = "emitted" => nz_event.position # "region_default"

(***************************************************************************)
(* Properties of the batch parsers.                                        *)
(***************************************************************************)
\* C21 (as claimed): every event a parser produces has latitude in [-90, 90] and
\* longitude in [-180, 180]; a feature with coordinates outside produces no event.
C21_CoordinatesInRange ==
    pb_events # <<>> =>
        \A j \in 1..Len(pb_events.returned) :
            /\ pb_events.returned[j].latitude >= -900
            /\ pb_events.returned[j].latitude <= 900
            /\ pb_events.returned[j].longitude >= -1800
            /\ pb_events.returned[j].longitude <= 1800

\* C22 (as claimed): every well-formed feature of a document, before or after a
\* malformed one, yields its event.
C22_FailuresArePerRecord ==
    pb_events # <<>> =>
        \A k \in 1..Len(pb_batch) :
            pb_batch[k].shape = "feature" =>
                \E j \in 1..Len(pb_events.returned) : pb_events.returned[j].item = k

(***************************************************************************)
(* Properties of the trained ensemble.                                     *)
(***************************************************************************)
Regressors == {"RandomForest", "XGBoost"}

\* the fitted estimator behind a name of models_used
ModelNamed(name) ==
    IF name = "RandomForest" THEN predictor.magnitude_predictor ELSE predictor.gradient_booster

\* the magnitudes (thousandths) the result can report when the regressors of used
\* answered: 0.6 of their mean with weights 0.4 and 0.4 renormalised, plus 0.4 of the
\* seismological magnitude
BlendedMagnitudes(used) ==
    LET seismic == AdvancedSeismicScore(earthquake_data, location).predicted_magnitude
        answers == [used -> {"lo", "hi"}]
        Value(name, v) == (IF v[name] = "lo" THEN ModelNamed(name).lo ELSE ModelNamed(name).hi) * 100
        Total(v) == IF used = Regressors
                    THEN 4 * Value("RandomForest", v) + 4 * Value("XGBoost", v)
                    ELSE 4 * Value(CHOOSE name \in used : TRUE, v)
        Blend(v) == ((Total(v) \div (4 * Cardinality(used))) * 6 + seismic * 4) \div 10
    IN  {((Blend(v) + 5) \div 10) * 10 : v \in answers}

\* C23: in the trained state a prediction that reaches the ensemble completes as
\* advanced_ensemble whichever of the three models raise; models_used names the models
\* that answered, the count of ensemble models is the number of regressors among
\* them, the magnitude is the renormalised weighted mean of the regressors that
\* answered, and a detector that raised reports no anomaly.
C23_FailingModelsAreLeftOut ==
    (/\ last_call = "predict"
     /\ predictor.is_trained
     /\ earthquake_data # <<>>
     /\ result.model_status \notin {"statistical_data_driven", "raised"}) =>
        /\ result.model_status = "advanced_ensemble"
        /\ result.models_used \subseteq Regressors \cup {"IsolationForest"}
        /\ result.ensemble_models = Cardinality(result.models_used \cap Regressors)
        /\ "IsolationForest" \notin result.models_used => ~result.anomaly_detected
        /\ result.models_used \cap Regressors # {} =>
               result.predicted_magnitude \in BlendedMagnitudes(result.models_used \cap Regressors)

\* the regression model and the detector raised, the boosted model answered
C23_Witness ==
    /\ last_call = "predict"
    /\ predictor.is_trained
    /\ result.model_status = "advanced_ensemble"
    /\ result.models_used = {"XGBoost"}
    /\ ~result.anomaly_detected

(***************************************************************************)
(* Properties of the foreshock score.                                      *)
(***************************************************************************)
\* magnitudes of the (at most) ten most recent fetched events, oldest first; the
\* fetched list is ordered most recent first
RecentMagsAscending ==
    LET n == Min(10, Len(earthquake_data))
    IN  [i \in 1..n |-> earthquake_data[n + 1 - i].mag]

\* C24 (as claimed): with fewer than five events the foreshock score is 0.1;
\* otherwise it follows the least-squares slope of magnitude against index over the
\* ten most recent events in ascending time order: min(1.0, 2 slope) when the slope
\* is positive, 0.1 when it is not.
C24_ForeshockFromAscendingFit ==
    seismic_score.computed =>
        seismic_score.bundle.foreshock_score =
            IF Len(earthquake_data) < 5 THEN 100
            ELSE IF SlopeNum(RecentMagsAscending) > 0
                 THEN Min(1000, (200 * SlopeNum(RecentMagsAscending))
                                    \div SlopeDen(Len(RecentMagsAscending)))
                 ELSE 100

(***************************************************************************)
(* Properties of the trained confidence.                                   *)
(***************************************************************************)
\* C25 (as claimed): in the trained state the confidence is 0.3 (models_used / 3)
\* + 0.25 data_quality + 0.25 min(1, count / 30) + 0.2 min(1, count_7d / 10), clamped
\* to [0.001, 0.999], with models_used counting the regression model, the boosted
\* model and the anomaly detector that answered.
C25_ConfidenceCountsThreeModels ==
    (/\ last_call = "predict"
     /\ predictor.is_trained
     /\ result.model_status = "advanced_ensemble") =>
        result.confidence_score =
            Min(999, Max(1,
                (30 * Min(1000, (1000 * Cardinality(result.models_used)) \div 3)
                     + 25 * result.data_quality_score
                     + 25 * Min(1000, (1000 * Len(earthquake_data)) \div 30)
                     + 20 * Min(1000, 100 * result.recent_7d_events)) \div 100))

(***************************************************************************)
(* Properties shared by the fusion paths.                                  *)
(***************************************************************************)
\* C26 (as claimed): the three copies of _remove_duplicates return the same list for
\* every input, including pairs 0.5 or more apart in magnitude, pairs 1800 to 3600 s
\* apart and pairs whose time strings cannot be compared.
C26_OneDeduplicator ==
    dd_phase # "input" =>
        \A variant \in Variants : RemoveDuplicates(variant, dd_in) = dd_out

\* C27 (as claimed): the list returned by get_comprehensive_earthquake_data has at most
\* 300 events and its events are in non-increasing order of their occurrence instant,
\* so that a cut keeps the most recent events.
C27_OrderedByInstant ==
    fo_phase = "done" =>
        /\ Len(fo_result) <= 300
        /\ \A i \in 1..Len(fo_result) : \A j \in i..Len(fo_result) :
               fo_result[i].t >= fo_result[j].t

\* C28: whatever the events, the stress label and the location, an assessment made
\* from a prediction of predict_earthquake_probability scores at most 0.66
\* (0.3 * 0.9 + 0.4 * 0.3 + 0.2 * 0.9 + 0.1 * 0.9), so its level is never very_high:
\* it is very_low, low, moderate, high or the error label unknown.
C28_NeverVeryHigh ==
    ag_risk # <<>> =>
        /\ ag_risk.overall_risk_score <= 660
        /\ ag_risk.risk_level \in {"very_low", "low", "moderate", "high", "unknown"}

\* five events in the last day, rapid energy release, at Tokyo: the bound is met
C28_Witness ==
    /\ ag_risk # <<>>
    /\ ag_predictions.probability_24h = 20000
    /\ ag_risk.overall_risk_score = 660
    /\ ag_risk.risk_level = "high"

(***************************************************************************)
(* Properties of the anomaly flag.                                         *)
(***************************************************************************)
\* the risk levels a result can carry when its level is computed with flag: the
\* probability and magnitude before round(.., 2) lie within half a hundredth of the
\* reported ones
LevelsWithFlag(flag) ==
    {DetermineEnhancedRiskLevel(
         p, m, AdvancedSeismicScore(earthquake_data, location).stress_index, flag) :
        p \in (result.probability_24h - 5)..(result.probability_24h + 4),
        m \in (result.predicted_magnitude - 5)..(result.predicted_magnitude + 4)}

\* C29 (as claimed): untrained or trained, the anomaly_detected value a prediction
\* reports is the flag that entered its risk_level (and its probability_24h): the
\* reported level is a level the formula gives with the reported flag.
C29_OneAnomalyFlag ==
    (last_call = "predict" /\ result.model_status \in EnsembleStatuses) =>
        result.risk_level \in LevelsWithFlag(result.anomaly_detected)

\* C30 (as claimed): in get_comprehensive_analysis the training precedes the prediction
\* of the same call: when the fused list has at least 10 events (11 to 14 included) and
\* no model fit fails, the returned model_info.ml_trained is true and the prediction's
\* model_status is "advanced_ensemble".
C30_TrainedBeforePredicting ==
    (/\ last_call = "analysis"
     /\ Len(earthquake_data) >= 10
     /\ "ml_predictions" \in DOMAIN result
     /\ result.ml_predictions.model_status \in EnsembleStatuses) =>
        /\ result.model_info.ml_trained
        /\ result.ml_predictions.model_status = "advanced_ensemble"

====
